---- MODULE Spec2Model ----
(***************************************************************************)
(* WebSocket transport of go-netty-transport: websocketTransport           *)
(* (Read / Write / Writev / WriteClose), wsutils.FrameReader and           *)
(* wsutils.ControlHandler, modelled as one transport T with one reader     *)
(* goroutine and several writer goroutines.  T's inbound byte stream is    *)
(* fed by a peer; T's outbound stream is the variable wire.                *)
(*                                                                         *)
(* Bytes are scaled to two bits (0..3); 0xff is the byte 3.  The CheckUTF8 *)
(* option is off in every configuration of this model.                     *)
(***************************************************************************)
EXTENDS Integers, Sequences, FiniteSets, TLC

\* ------------------------------------------------------------------ bounds
MaxLen == 2        \* longest message payload a peer or a writer produces
MaxFrames == 3     \* frames a peer that follows the framing rules sends
MaxProbes == 1     \* frames a peer that sends any frame at all sends
MaxBuf == 2        \* largest buffer a caller passes to Read
MaxExt == 2        \* entries in the handshake's extension list
MaxCloses == 2     \* Close calls on one transport or one acceptor
MaxHandlers == 2   \* upgrade handlers of one acceptor that run at the same time
MaxCipherLen == 24 \* longest buffer handed to FastCipher
MaxOff == 7        \* largest offset handed to FastCipher
MaxResets == 1     \* Reset calls on one CipherReader
MaxWrites == 2     \* Write / Writev / WriteClose calls over all writers

\* ------------------------------------------------- constants of gobwas/ws
OpContinuation == 0
OpText == 1
OpBinary == 2
OpClose == 8
OpPing == 9
OpPong == 10
MaxControlFramePayloadSize == 125

Byte == 0 .. 3
NoMask == <<0, 0, 0, 0>>
\* rand.Uint32() as a mask: the masks the peer draws, and the one T draws
MaskSet == {<<1, 2, 3, 1>>, <<3, 0, 2, 2>>}
OwnMask == <<2, 1, 0, 3>>

Min(a, b) == IF a < b THEN a ELSE b

\* bitwise operations on the scaled bytes and on 4-bit op codes
Xor(a, b) == (((a % 2) + (b % 2)) % 2) + 2 * (((a \div 2) + (b \div 2)) % 2)

RECURSIVE BitAnd(_, _)
BitAnd(a, b) ==
    IF a = 0 \/ b = 0 THEN 0
    ELSE ((a % 2) * (b % 2)) + (2 * BitAnd(a \div 2, b \div 2))

IsControl(op) == BitAnd(op, 8) # 0
IsData(op) == op = OpText \/ op = OpBinary
IsReserved(op) == (3 <= op /\ op <= 7) \/ (11 <= op /\ op <= 15)

IsPrefix(s, t) == Len(s) <= Len(t) /\ SubSeq(t, 1, Len(s)) = s

\* ------------------------------------------------------------- mask codec
\* FastCipher: head loop up to alignment, 4-byte blocks, tail loop.
\* a cipher that starts every call at the first byte of the mask
FastCipherFromZero(p, mask, off) ==
    [i \in 1 .. Len(p) |-> Xor(p[i], mask[((i - 1) % 4) + 1])]

\* a cipher that adds the mask byte instead of xoring it
FastCipherAdding(p, mask, off) ==
    [i \in 1 .. Len(p) |-> (p[i] + mask[((off + i - 1) % 4) + 1]) % 4]

FastCipher(p, mask, off) ==
    LET n == Len(p)
        h == Min(n, (4 - (off % 4)) % 4)
        blk == 4 * ((n - h) \div 4)
    IN [i \in 1 .. n |->
          IF i <= h THEN Xor(p[i], mask[((off + i - 1) % 4) + 1])
          ELSE IF i <= h + blk THEN Xor(p[i], mask[((i - 1 - h) % 4) + 1])
          ELSE Xor(p[i], mask[((off + h + (i - 1 - h - blk)) % 4) + 1])]

\* ------------------------------------------------------------ flate codec
compressionTail == <<0, 0, 3, 3>>
compressionReadTail == <<0, 0, 3, 3>>

\* The raw DEFLATE stream a compressor emits for p on Write(p); Flush():
\* the coded bytes of p, the header byte of the empty stored block of the
\* sync flush, and that block's LEN/NLEN bytes 00 00 ff ff.
Complement(p) == [i \in 1 .. Len(p) |-> 3 - p[i]]
DeflateStream(p) == Complement(p) \o <<0>> \o compressionTail

\* cbuf: everything written by the compressor except its last 4 bytes
\* reaches the sink; Flush succeeds iff those 4 bytes are the tail.
FlateWriterOutput(p) ==
    LET s == DeflateStream(p)
    IN [out |-> SubSeq(s, 1, Len(s) - 4),
        err |-> IF SubSeq(s, Len(s) - 3, Len(s)) = compressionTail
                THEN "nil" ELSE "ErrBadTail"]

\* The decompressor over src followed by compressionReadTail.  It yields
\* the decoded bytes once it has read the stored block of the sync flush;
\* the stream holds no final block, so the read after the last decoded byte
\* ends with io.ErrUnexpectedEOF.
Inflate(src) ==
    LET s == src \o compressionReadTail
        n == Len(s) - 5
    IN IF n >= 0 /\ s[n + 1] = 0 /\ SubSeq(s, n + 2, n + 5) = compressionTail
          /\ \A i \in 1 .. n : s[i] \in Byte
       THEN [ok |-> TRUE, data |-> Complement(SubSeq(s, 1, n))]
       ELSE [ok |-> FALSE, data |-> <<>>]

\* ------------------------------------------------------------ frame header
Header(fin, rsv1, op, masked, mask, len) ==
    [fin |-> fin, rsv1 |-> rsv1, op |-> op, masked |-> masked, mask |-> mask, len |-> len]
NilHeader == Header(FALSE, FALSE, 0, FALSE, NoMask, 0)

\* ws.CheckHeader(h, s) with s = side | StateExtended | (fragmented)
CheckHeader(h, side, extended, fragmented) ==
    IF IsReserved(h.op) THEN "ErrProtocolOpCodeReserved"
    ELSE IF IsControl(h.op) /\ h.len > MaxControlFramePayloadSize
         THEN "ErrProtocolControlPayloadOverflow"
    ELSE IF IsControl(h.op) /\ ~h.fin THEN "ErrProtocolControlNotFinal"
    ELSE IF h.rsv1 /\ ~extended THEN "ErrProtocolNonZeroRsv"
    ELSE IF side = "server" /\ ~h.masked THEN "ErrProtocolMaskRequired"
    ELSE IF side = "client" /\ h.masked THEN "ErrProtocolMaskUnexpected"
    ELSE IF fragmented /\ ~IsControl(h.op) /\ h.op # OpContinuation
         THEN "ErrProtocolContinuationExpected"
    ELSE IF ~fragmented /\ h.op = OpContinuation
         THEN "ErrProtocolContinuationUnexpected"
    ELSE "nil"

\* wsflate.IsCompressed(h): RSV1 on a text or binary frame, final or not, marks
\* a compressed message; on a control or continuation frame it is an error
IsCompressed(h) ==
    IF ~h.rsv1 THEN [compressed |-> FALSE, err |-> "nil"]
    ELSE IF IsData(h.op) THEN [compressed |-> TRUE, err |-> "nil"]
    ELSE [compressed |-> FALSE, err |-> "ErrUnexpectedCompressionBit"]

\* close-frame payloads: a 2-byte big-endian status code, then the reason.
\* The scaled status codes: 4 is StatusNormalClosure (1000), 6 is
\* StatusProtocolError (1002), 7 is StatusUnsupportedData (1003), 9 is
\* StatusNoStatusRcvd (1005); 0..3 stand for the codes below 1000.
StatusProtocolError == 6
StatusUnsupportedData == 7
StatusNoStatusRcvd == 9
CodeBytes(code) == <<code \div 4, code % 4>>
ReasonText == <<2>>
NewCloseFrameBody(code, reason) == CodeBytes(code) \o reason
ParseCloseFrameData(payload) ==
    IF Len(payload) < 2 THEN 0 ELSE (4 * payload[1]) + payload[2]
CloseReason(payload) ==
    IF Len(payload) < 2 THEN <<>> ELSE SubSeq(payload, 3, Len(payload))
\* a check of the close payload that rejects every status code
CheckCloseFrameDataStrict(code) == "ErrProtocolInvalidCloseCode"
\* ws.CheckCloseFrameData: codes not in use, reserved or undefined are errors
CheckCloseFrameData(code) ==
    IF code \in 4 .. 7 THEN "nil" ELSE "ErrProtocolInvalidCloseCode"

\* ------------------------------------------------------------------ state
VARIABLES
    cfg,        \* Options and construction parameters of transport T
    inq,        \* inbound stream: tokens not yet consumed by the reader
    inEof,      \* the peer has closed the inbound stream
    pm,         \* peer's message in progress and the last close payload it sent
    sent,       \* frames sent by the peer
    rd,         \* wsutils.FrameReader
    msgReader,  \* websocketTransport.msgReader # nil
    rc,         \* the Read call in progress (reader goroutine)
    rres,       \* what the last Read call returned
    got,        \* bytes delivered to the caller for the current message
    expd,       \* payload the peer sent for the message being read
    pings,      \* payloads of the ping frames the reader has taken
    broken,     \* the last Read failed; the caller stops reading
    wire,       \* outbound stream: what T has written
    lock,       \* holder of websocketTransport.writeLocker
    nextId,     \* frames T has started to write
    wr,         \* writer goroutines
    writes,     \* Write / Writev / WriteClose calls made
    hs,         \* ws.Handshake.Extensions given to newWebsocketTransport
    negotiated, \* websocketTransport.negotiated
    codecs,     \* persistent flate instances, their pools, the stream's end
    acc,        \* wsAcceptor and the goroutines that use it
    hc,         \* a header packed by packHeader and read back by ReadHeader
    ciph,       \* a buffer under FastCipher and a CipherReader
    cb,         \* a FlateWriter's cbuf and the sink behind it
    pw          \* the persistent flate instances and the goroutines that share them

vars == <<cfg, inq, inEof, pm, sent, rd, msgReader, rc, rres, got, expd,
          pings, broken, wire, lock, nextId, wr, writes, hs, negotiated, codecs,
          acc, hc, ciph, cb, pw>>
ctorVars == <<hs, negotiated, codecs>>
auxVars == <<acc, hc, ciph, cb, pw>>
transportVars == <<cfg, inq, inEof, pm, sent, rd, msgReader, rc, rres, got, expd,
                   pings, broken, wire, lock, nextId, wr, writes, hs, negotiated, codecs>>

peerVars == <<inq, inEof, pm, sent>>
readerVars == <<rd, msgReader, rc, rres, got, expd, pings, broken>>
writerVars == <<wr, writes>>

Writers == {"w1", "w2"}
Sides == {"client", "server"}
Other(side) == IF side = "client" THEN "server" ELSE "client"

\* stream tokens
HdrTok(h, g) == [t |-> "h", hdr |-> h, v |-> 0, g |-> g]
ByteTok(b) == [t |-> "b", hdr |-> NilHeader, v |-> b, g |-> <<>>]
\* the stream ends inside a header: after its first two bytes (ReadFull of
\* the rest returns io.EOF) or inside a ReadFull (io.ErrUnexpectedEOF)
CutTok(e) == [t |-> "x", hdr |-> NilHeader, v |-> 0, g |-> <<e>>]
Toks(bytes) == [i \in 1 .. Len(bytes) |-> ByteTok(bytes[i])]

RECURSIVE Avail(_)
Avail(q) == IF q # <<>> /\ Head(q).t = "b" THEN 1 + Avail(Tail(q)) ELSE 0
TokBytes(q, n) == [i \in 1 .. n |-> q[i].v]
StreamEof == inq = <<>> /\ inEof

\* FrameReader zero value
NewFrameReader ==
    [frame |-> "nil", N |-> 0, frag |-> FALSE, opCode |-> 0,
     masked |-> FALSE, cm |-> NoMask, cpos |-> 0, flate |-> FALSE]
IdleCall ==
    [pc |-> "idle", site |-> "loop", src |-> "reader", buf |-> 0, hdr |-> NilHeader,
     hreason |-> <<>>, out |-> [hdr |-> NilHeader, pay |-> <<>>], lockNext |-> "whdr",
     after |-> "loop", herr |-> "nil", hcode |-> 0]
NoResult ==
    [n |-> 0, err |-> "none", code |-> 0, reason |-> <<>>, data |-> <<>>, msg |-> <<>>, expd |-> <<>>,
     hdr |-> NilHeader, frag |-> FALSE, op |-> 0, eof |-> FALSE]
IdleWriter == [pc |-> "idle", q |-> <<>>, id |-> 0, src |-> <<>>, bufs |-> <<>>, fn |-> "none"]

Configs ==
    [side : Sides, acceptMask : {1, 2, 3}, compressEnabled : BOOLEAN,
     negotiated : BOOLEAN, threshold : {1, 2}, maxFrameSize : {0, 1},
     buf : 1 .. MaxBuf]

\* ---------------------------------------------------- handshake extensions
\* A parameter of an extension: present or not, and its value.  The bytes
\* 0 .. 9 are the digits, NotDigit is any other byte.
NotDigit == 10
Param(ok, v) == [ok |-> ok, v |-> v]
NoParam == Param(FALSE, <<>>)
FlagParams == {NoParam, Param(TRUE, <<>>)}
WindowParams == {NoParam, Param(TRUE, <<>>), Param(TRUE, <<1, 5>>), Param(TRUE, <<1, NotDigit>>)}
ExtensionNames == {"permessage-deflate", "other"}
\* httphead.Option; an extension of another name comes with or without the
\* flags and without the window parameters
Extensions ==
    {e \in [name : ExtensionNames, client_no_context_takeover : FlagParams,
            server_no_context_takeover : FlagParams, client_max_window_bits : WindowParams,
            server_max_window_bits : WindowParams] :
       e.name = "permessage-deflate"
         \/ (e.client_max_window_bits = NoParam /\ e.server_max_window_bits = NoParam)}
Handshakes == UNION {[1 .. n -> Extensions] : n \in 0 .. MaxExt}

\* strconv.Atoi on an unsigned decimal string: the digits, most significant
\* first; an empty string or a byte that is no digit is an error
RECURSIVE Decimal(_)
Decimal(v) == IF v = <<>> THEN 0 ELSE (10 * Decimal(SubSeq(v, 1, Len(v) - 1))) + v[Len(v)]
Atoi(v) ==
    IF v # <<>> /\ \A i \in 1 .. Len(v) : v[i] < NotDigit
    THEN [n |-> Decimal(v), err |-> FALSE]
    ELSE [n |-> 0, err |-> TRUE]

\* the zero value of websocketTransport.negotiated
ZeroNegotiated ==
    [enabled |-> FALSE, clientNoContextTake |-> FALSE, serverNoContextTake |-> FALSE,
     clientMaxWindowBits |-> 0, serverMaxWindowBits |-> 0]

\* one max_window_bits parameter of parsePerMessageDeflate
WindowBits(par, old) ==
    IF par.ok /\ Len(par.v) > 0 /\ ~Atoi(par.v).err THEN Atoi(par.v).n ELSE old

\* a parse that lets every permessage-deflate entry overwrite the result
RECURSIVE parseLastWins(_, _)
parseLastWins(h, out) ==
    IF h = <<>> THEN out
    ELSE IF Head(h).name # "permessage-deflate" THEN parseLastWins(Tail(h), out)
    ELSE parseLastWins(Tail(h),
           [enabled |-> TRUE,
            clientNoContextTake |-> Head(h).client_no_context_takeover.ok,
            serverNoContextTake |-> Head(h).server_no_context_takeover.ok,
            clientMaxWindowBits |-> WindowBits(Head(h).client_max_window_bits, 0),
            serverMaxWindowBits |-> WindowBits(Head(h).server_max_window_bits, 0)])

\* parsePerMessageDeflate(hs, &out)
RECURSIVE parsePerMessageDeflate(_, _)
parsePerMessageDeflate(h, out) ==
    IF h = <<>> THEN out
    ELSE IF Head(h).name # "permessage-deflate" THEN parsePerMessageDeflate(Tail(h), out)
    ELSE [enabled |-> TRUE,
          clientNoContextTake |-> out.clientNoContextTake
                                    \/ Head(h).client_no_context_takeover.ok,
          serverNoContextTake |-> out.serverNoContextTake
                                    \/ Head(h).server_no_context_takeover.ok,
          clientMaxWindowBits |-> WindowBits(Head(h).client_max_window_bits,
                                             out.clientMaxWindowBits),
          serverMaxWindowBits |-> WindowBits(Head(h).server_max_window_bits,
                                             out.serverMaxWindowBits)]

\* t.negotiated once newWebsocketTransport has looked at the handshake
Negotiated(h) ==
    IF Len(h) > 0 THEN parsePerMessageDeflate(h, ZeroNegotiated) ELSE ZeroNegotiated

\* --------------------------------------------------------- flate instances
\* A wsutils.FlateReader or FlateWriter held by the transport: kind is "nil"
\* (no instance), "pool" (taken from the options' pool) or "window" (built
\* with kpflate.NewWriterWindow); window is that writer's window size; hist
\* is the DEFLATE history the instance holds; base is the history it held when
\* it began its latest message, prev the message before that one, and n
\* counts its messages.
NoFlate == [kind |-> "nil", window |-> 0, hist |-> <<>>, base |-> <<>>, prev |-> <<>>, n |-> 0]
Pooled == [NoFlate EXCEPT !.kind = "pool"]
Windowed(size) == [NoFlate EXCEPT !.kind = "window", !.window = size]

\* FlateReader.Reset(src) and FlateWriter.Reset(dest): the decompressor's
\* Reset(r, nil) and the compressor's Reset(w) start from an empty history
FlateReset(f) == [f EXCEPT !.hist = <<>>]
\* the instance takes the message p after the Reset that precedes it
FlateMessage(f, p) ==
    LET g == FlateReset(f)
    IN [g EXCEPT !.prev = f.hist, !.base = g.hist, !.hist = g.hist \o p, !.n = f.n + 1]

\* the transport's flate state before newWebsocketTransport has run
NoCodecs ==
    [built |-> FALSE, persistentFlateReader |-> NoFlate,
     persistentFlateWriter |-> NoFlate,
     override |-> FALSE,      \* reader.GetFlateReader uses the persistent reader
     extensions |-> FALSE,    \* reader.Extensions clears RSV1
     log |-> <<>>,            \* what the Close calls did, in order
     closed |-> FALSE,        \* a Close call has returned
     after |-> "none",        \* what a call after Close came to
     panic |-> FALSE]         \* a nil persistent reader was dereferenced

Pow2(n) == 2 ^ n

PeerNoCtx(side, neg) ==
    IF side = "server" THEN neg.clientNoContextTake ELSE neg.serverNoContextTake
OurNoCtx(side, neg) ==
    IF side = "server" THEN neg.serverNoContextTake ELSE neg.clientNoContextTake
OurWindowBits(side, neg) ==
    IF side = "server" THEN neg.serverMaxWindowBits ELSE neg.clientMaxWindowBits

\* a constructor that keeps a persistent reader by its own side's flag
PersistentReaderOwnFlag(c, neg) ==
    IF c.compressEnabled /\ neg.enabled /\ ~OurNoCtx(c.side, neg) THEN Pooled ELSE NoFlate
\* the persistent reader newWebsocketTransport sets up
PersistentReader(c, neg) ==
    IF c.compressEnabled /\ neg.enabled /\ ~PeerNoCtx(c.side, neg) THEN Pooled ELSE NoFlate

\* a constructor that always takes its persistent writer from the pool
PersistentWriterPooled(c, neg) ==
    IF c.compressEnabled /\ neg.enabled /\ ~OurNoCtx(c.side, neg) THEN Pooled ELSE NoFlate
\* the persistent writer newWebsocketTransport sets up
PersistentWriter(c, neg) ==
    IF c.compressEnabled /\ neg.enabled /\ ~OurNoCtx(c.side, neg)
    THEN IF OurWindowBits(c.side, neg) > 0
         THEN Windowed(Pow2(OurWindowBits(c.side, neg)))
         ELSE Pooled
    ELSE NoFlate

\* the flate part of newWebsocketTransport(conn, hs, state, options)
newWebsocketTransport(c, h) ==
    LET neg == Negotiated(h)
    IN [NoCodecs EXCEPT !.built = TRUE,
                        !.extensions = c.compressEnabled /\ neg.enabled,
                        !.persistentFlateReader = PersistentReader(c, neg),
                        !.override = PersistentReader(c, neg).kind # "nil",
                        !.persistentFlateWriter = PersistentWriter(c, neg)]

\* no acceptor, no header and no buffer under test
NoAcceptor == [built |-> FALSE]
NoHeaderCodec == [built |-> FALSE]
NoCipher == [built |-> FALSE]
NoCbuf == [built |-> FALSE]
NoDeflater == [built |-> FALSE]
InitAux == acc = NoAcceptor /\ hc = NoHeaderCodec /\ ciph = NoCipher /\ cb = NoCbuf /\ pw = NoDeflater

\* nothing has been read or written yet
InitIdle ==
    /\ inq = <<>> /\ inEof = FALSE
    /\ pm = [data |-> <<>>, open |-> FALSE, closed |-> FALSE, close |-> <<>>]
    /\ sent = 0
    /\ rd = NewFrameReader
    /\ msgReader = FALSE
    /\ rc = IdleCall
    /\ rres = NoResult
    /\ got = <<>> /\ expd = <<>> /\ pings = <<>>
    /\ broken = FALSE
    /\ wire = <<>> /\ lock = "none" /\ nextId = 0
    /\ wr = [w \in Writers |-> IdleWriter]
    /\ writes = 0

\* a handshake that negotiates permessage-deflate without context takeover
NoTakeover ==
    [name |-> "permessage-deflate", client_no_context_takeover |-> Param(TRUE, <<>>),
     server_no_context_takeover |-> Param(TRUE, <<>>),
     client_max_window_bits |-> NoParam, server_max_window_bits |-> NoParam]
\* a handshake that negotiates permessage-deflate with context takeover
Takeover ==
    [NoTakeover EXCEPT !.client_no_context_takeover = NoParam,
                       !.server_no_context_takeover = NoParam]

InitCommon ==
    /\ hs = IF cfg.negotiated THEN <<NoTakeover>> ELSE <<>>
    /\ negotiated = Negotiated(hs)
    /\ codecs = newWebsocketTransport(cfg, hs)
    /\ InitIdle
    /\ InitAux

\* ------------------------------------------------------------------- peer
\* Payloads with neighbouring bytes distinct; control payloads use byte 3.
DataPayloads == {[i \in 1 .. n |-> 1 + (i % 2)] : n \in 0 .. MaxLen}
PingPayloads == {[i \in 1 .. n |-> 3] : n \in 0 .. MaxLen - 1}
ClosePayloads == {<<>>, <<1>>, CodeBytes(4), CodeBytes(1)}
PeerPayloads(op) ==
    IF op = OpClose THEN ClosePayloads \cup {CodeBytes(5) \o ReasonText}
    ELSE IF IsControl(op) THEN PingPayloads ELSE DataPayloads
PeerMask == <<1, 2, 3, 1>>
Frame(fin, rsv1, op, masked, plain) ==
    [fin |-> fin, rsv1 |-> rsv1, op |-> op, masked |-> masked, plain |-> plain]

\* every frame a peer can put on the stream, well-formed or not
AnyFrames ==
    UNION {{Frame(fin, rsv1, op, masked, plain) :
              fin \in BOOLEAN, rsv1 \in BOOLEAN, masked \in BOOLEAN,
              plain \in PeerPayloads(op)} :
           op \in {OpContinuation, OpText, OpBinary, 3, OpClose, OpPing, OpPong}}
\* the frames of a peer that follows the framing rules, apart from the order
\* of its frames and the codes of its close frames
FramesOf(side) ==
    {Frame(fin, FALSE, op, side = "client", plain) :
       fin \in BOOLEAN, op \in {OpContinuation, OpText, OpBinary},
       plain \in DataPayloads \ {<<>>}}
    \cup {Frame(TRUE, FALSE, op, side = "client", plain) :
            op \in {OpPing, OpPong}, plain \in PingPayloads}
    \cup {Frame(TRUE, FALSE, OpClose, side = "client", plain) : plain \in ClosePayloads}

\* The peer puts the frame f on the stream: its header and the first cut
\* bytes of its payload; it closes the stream when it holds bytes back.
PeerSend(f, cut) ==
    LET body == IF f.rsv1 THEN FlateWriterOutput(f.plain).out ELSE f.plain
        h == Header(f.fin, f.rsv1, f.op, f.masked,
                    IF f.masked THEN PeerMask ELSE NoMask, Len(body))
        bytes == IF f.masked THEN FastCipher(body, PeerMask, 0) ELSE body
        pm1 == IF f.op = OpClose THEN [pm EXCEPT !.closed = TRUE, !.close = f.plain]
               ELSE IF IsControl(f.op) \/ IsReserved(f.op) THEN pm
               ELSE IF f.op = OpContinuation
                    THEN [pm EXCEPT !.data = @ \o f.plain, !.open = ~f.fin]
                    ELSE [pm EXCEPT !.data = f.plain, !.open = ~f.fin]
        g == IF IsControl(f.op) THEN f.plain ELSE pm1.data
    IN /\ cut <= Len(bytes)
       /\ inq' = <<HdrTok(h, g)>> \o Toks(SubSeq(bytes, 1, cut))
       /\ inEof' = (cut < Len(bytes))
       /\ pm' = pm1
       /\ sent' = sent + 1

\* the stream is empty and the reader is between two frames
PeerTurn == inq = <<>> /\ ~inEof /\ ~broken /\ rc.pc \in {"idle", "next"}

\* a peer that follows the framing rules sends a frame
PeerSendFrame ==
    /\ PeerTurn
    /\ sent < MaxFrames
    /\ \E f \in FramesOf(Other(cfg.side)), cut \in 0 .. MaxLen : PeerSend(f, cut)
    /\ UNCHANGED ctorVars /\ UNCHANGED auxVars /\ UNCHANGED <<cfg, wire, lock, nextId>>
    /\ UNCHANGED readerVars /\ UNCHANGED writerVars

\* a peer sends any frame at all
PeerSendAny ==
    /\ PeerTurn
    /\ sent < MaxProbes
    /\ \E f \in AnyFrames, cut \in 0 .. MaxLen + 1 : PeerSend(f, cut)
    /\ UNCHANGED ctorVars /\ UNCHANGED auxVars /\ UNCHANGED <<cfg, wire, lock, nextId>>
    /\ UNCHANGED readerVars /\ UNCHANGED writerVars

\* the peer closes the stream at a frame boundary
PeerEof ==
    /\ PeerTurn
    /\ inEof' = TRUE
    /\ UNCHANGED ctorVars /\ UNCHANGED auxVars /\ UNCHANGED <<cfg, inq, pm, sent, wire, lock, nextId>>
    /\ UNCHANGED readerVars /\ UNCHANGED writerVars

\* the peer closes the stream inside a frame header
PeerCutHeader ==
    /\ PeerTurn
    /\ \E e \in {"EOF", "ErrUnexpectedEOF"} : inq' = <<CutTok(e)>>
    /\ inEof' = TRUE
    /\ UNCHANGED ctorVars /\ UNCHANGED auxVars /\ UNCHANGED <<cfg, pm, sent, wire, lock, nextId>>
    /\ UNCHANGED readerVars /\ UNCHANGED writerVars

\* ------------------------------------------------------------ FrameReader
\* FrameReader.reset
reset(r) ==
    [r EXCEPT !.N = 0, !.frame = "nil", !.opCode = 0, !.masked = FALSE,
              !.cm = NoMask, !.cpos = 0, !.flate = FALSE]
\* FrameReader.resetFragment
resetFragment(r) ==
    [r EXCEPT !.N = 0, !.frame = "nil", !.masked = FALSE, !.cm = NoMask, !.cpos = 0]

\* CipherReader.Read over the limited reader: the next k bytes of the stream
Unmasked(r, k) ==
    IF r.masked THEN FastCipher(TokBytes(inq, k), r.cm, r.cpos) ELSE TokBytes(inq, k)
Taken(r, k) == [r EXCEPT !.N = @ - k, !.cpos = IF r.masked THEN (@ + k) % 4 ELSE @]
Drop(k) == SubSeq(inq, k + 1, Len(inq))

\* A Read call returns (n, err) with the bytes data copied into p.
Return(n, err, code, data, h) ==
    /\ rc' = IdleCall
    /\ rres' = [n |-> n, err |-> err, code |-> code, data |-> data,
                reason |-> IF err = "ClosedError" THEN rc.hreason ELSE <<>>,
                msg |-> got \o data, expd |-> expd, hdr |-> h,
                frag |-> rd.frag, op |-> rd.opCode, eof |-> inEof]
    /\ got' = IF err = "EOF" THEN <<>> ELSE got \o data
    /\ broken' = (err \notin {"nil", "EOF", "ClosedError"})

\* Read is called with a buffer of cfg.buf bytes.
ReadCall ==
    /\ rc.pc = "idle" /\ ~broken
    /\ rc' = [IdleCall EXCEPT !.pc = IF msgReader THEN "mread" ELSE "next",
                              !.site = "loop", !.buf = cfg.buf]
    /\ UNCHANGED ctorVars /\ UNCHANGED auxVars /\ UNCHANGED <<cfg, rd, msgReader, rres, got, expd, pings, broken, wire, lock, nextId>>
    /\ UNCHANGED peerVars /\ UNCHANGED writerVars

\* the accept-mask test of Transport.Read
Unsupported(op) == BitAnd(op, cfg.acceptMask) = 0

\* a dispatch that accepts every data opcode
DispatchNoMask(h) == IF IsControl(h.op) THEN "handler" ELSE "message"

\* a dispatch that tests the accept mask before it looks for a control frame
DispatchMaskFirst(h) ==
    IF Unsupported(h.op) THEN "discard"
    ELSE IF IsControl(h.op) THEN "handler"
    ELSE "message"

\* The frame NextFrame has produced goes to its caller.  In Transport.Read
\* a control frame is handled first; then the accept mask is tested.
DispatchLoop(h) ==
    IF IsControl(h.op) THEN "handler"
    ELSE IF Unsupported(h.op) THEN "discard"
    ELSE "message"

\* ControlHandler.Handle(h) up to its first blocking step
HandlerEntry(c, h, src) ==
    LET b == [c EXCEPT !.hdr = h, !.src = src, !.hreason = <<>>, !.after = "handler",
                       !.herr = "nil", !.hcode = 0]
        empty(op) == [hdr |-> Header(TRUE, FALSE, op, cfg.side = "client", NoMask, 0),
                      pay |-> <<>>]
    IN IF h.op = OpPing
       THEN IF h.len = 0
            THEN [b EXCEPT !.pc = "lock", !.lockNext = "whdr", !.out = empty(OpPong)]
            ELSE [b EXCEPT !.pc = "lock", !.lockNext = "ctlread"]
       ELSE IF h.op = OpPong
       THEN [b EXCEPT !.pc = IF h.len = 0 THEN "hdone" ELSE "ctlread"]
       ELSE IF h.len = 0
            THEN [b EXCEPT !.pc = "lock", !.lockNext = "whdr", !.out = empty(OpClose),
                           !.herr = "ClosedError", !.hcode = StatusNoStatusRcvd]
            ELSE [b EXCEPT !.pc = "ctlread"]

\* NextFrame returns an error to its caller: Transport.Read (loop),
\* FrameReader.Read (mread) or FrameReader.Discard (discard).
NextFrameFailed(e, r, h) ==
    LET ue == IF e = "EOF" THEN "ErrUnexpectedEOF" ELSE e
        code == IF e = "ClosedError" THEN rc.hcode ELSE 0
    IN IF rc.site = "loop"
       THEN /\ rd' = r /\ UNCHANGED msgReader
            /\ Return(0, ue, code, <<>>, h)
       ELSE IF rc.site = "mread"
       THEN /\ rd' = r
            /\ msgReader' = IF e = "EOF" THEN FALSE ELSE msgReader
            /\ Return(0, e, code, <<>>, h)
       ELSE /\ rd' = reset(r) /\ UNCHANGED msgReader
            /\ Return(0, ue, code, <<>>, h)

\* a size test that also rejects a frame of exactly MaxFrameSize bytes
TooLargeInclusive(c, h) == c.maxFrameSize > 0 /\ h.len >= c.maxFrameSize

\* the MaxFrameSize test of NextFrame
TooLarge(c, h) == c.maxFrameSize > 0 /\ h.len > c.maxFrameSize

\* reader.GetFlateReader as newWebsocketTransport overrides it: the persistent
\* reader is Reset onto the frame.  Without the override a reader comes from
\* the pool and goes back to it.
GetFlateReader(cd) ==
    IF cd.override THEN [cd EXCEPT !.persistentFlateReader = FlateMessage(@, <<>>)] ELSE cd
\* the overriding GetFlateReader finds t.persistentFlateReader nil
NilReader(cd) == cd.override /\ cd.persistentFlateReader.kind = "nil"
\* the persistent reader has inflated data
Inflated(cd, data) ==
    IF cd.override /\ cd.persistentFlateReader.kind # "nil"
    THEN [cd EXCEPT !.persistentFlateReader.hist = @ \o data]
    ELSE cd
\* what a read of the stream fails with once it has no more bytes
StreamEnd(e) == IF codecs.closed THEN "ErrClosed" ELSE e

\* a NextFrame that records the op code of every frame it accepts
AdvanceFragmentAnyOpCode(r, h, compressed) ==
    [r EXCEPT !.opCode = h.op,
              !.frame = IF compressed THEN "flate" ELSE "raw",
              !.frag = ~h.fin]

\* the end of NextFrame for a frame that is not a control frame inside a
\* message: the op code is recorded unless a message is in progress, the frame
\* becomes the current one, fin clears and its absence sets StateFragmented
AdvanceFragment(r, h, compressed) ==
    [r EXCEPT !.opCode = IF r.frag THEN @ ELSE h.op,
              !.frame = IF compressed THEN "flate" ELSE "raw",
              !.frag = ~h.fin]

\* FrameReader.NextFrame on the header h just read from the stream
NextFrameHeader(h, g) ==
    LET e1 == CheckHeader(h, cfg.side, TRUE, rd.frag)
        r1 == [rd EXCEPT !.N = h.len, !.masked = h.masked,
                         !.cm = IF h.masked THEN h.mask ELSE @,
                         !.cpos = IF h.masked THEN 0 ELSE @]
        ic == IsCompressed(h)
        r2 == IF ic.compressed THEN [r1 EXCEPT !.flate = TRUE] ELSE r1
        r3 == AdvanceFragment(r2, h, ic.compressed)
    IN IF e1 # "nil" THEN NextFrameFailed(e1, rd, h) /\ UNCHANGED <<expd, pings, codecs>>
       ELSE IF TooLarge(cfg, h)
       THEN NextFrameFailed("ErrFrameTooLarge", rd, h) /\ UNCHANGED <<expd, pings, codecs>>
       ELSE IF ic.err # "nil"
       THEN NextFrameFailed(ic.err, r1, h) /\ UNCHANGED <<expd, pings, codecs>>
       ELSE IF ic.compressed /\ NilReader(codecs)
       THEN /\ codecs' = [codecs EXCEPT !.panic = TRUE]
            /\ rd' = r1
            /\ rc' = [rc EXCEPT !.pc = "panic", !.hdr = h]
            /\ UNCHANGED <<expd, pings, rres, got, broken, msgReader>>
       ELSE /\ codecs' = IF ic.compressed THEN GetFlateReader(codecs) ELSE codecs
            /\ expd' = IF IsControl(h.op) THEN expd ELSE g
            /\ pings' = IF h.op = OpPing
                        THEN Append(pings, [pay |-> g, frag |-> rd.frag])
                        ELSE pings
            /\ UNCHANGED <<rres, got, broken>>
            /\ IF rd.frag /\ IsControl(h.op)
               THEN /\ rd' = r2 /\ UNCHANGED msgReader
                    /\ rc' = HandlerEntry(rc, h, "frame")
               ELSE /\ rd' = r3
                    /\ IF rc.site = "loop"
                       THEN LET d == DispatchLoop(h)
                            IN /\ msgReader' = (d = "message")
                               /\ rc' = IF d = "handler" THEN HandlerEntry(rc, h, "reader")
                                        ELSE IF d = "discard"
                                        THEN [rc EXCEPT !.pc = "discard", !.hdr = h]
                                        ELSE [rc EXCEPT !.pc = "mread", !.hdr = h]
                       ELSE /\ UNCHANGED msgReader
                            /\ rc' = [rc EXCEPT !.pc = rc.site, !.hdr = h]

\* FrameReader.NextFrame: ReadHeader, then the checks and the frame set-up
RNextFrame ==
    /\ rc.pc = "next"
    /\ inq # <<>> \/ inEof
    /\ inq # <<>> => Head(inq).t # "b"
    /\ IF inq = <<>> \/ Head(inq).t = "x"
       THEN LET e0 == IF inq = <<>> THEN StreamEnd("EOF") ELSE Head(inq).g[1]
                e == IF e0 = "EOF" /\ rd.frag THEN "ErrUnexpectedEOF" ELSE e0
            IN /\ inq' = <<>>
               /\ NextFrameFailed(e, rd, NilHeader)
               /\ UNCHANGED <<expd, pings, codecs>>
       ELSE /\ inq' = Tail(inq)
            /\ NextFrameHeader(Head(inq).hdr, Head(inq).g)
    /\ UNCHANGED auxVars /\ UNCHANGED <<cfg, hs, negotiated, inEof, pm, sent, wire, lock, nextId>>
    /\ UNCHANGED writerVars

\* ----------------------------------------------------- reading a message
\* errors the inflater reports for a stream that ends before its last block
FlateErrors == {"ErrUnexpectedEOF", "CorruptInputError"}

\* the tail of FrameReader.Read once the frame's reader has returned n bytes
\* without an error other than io.EOF and raw.N is zero
ReadFinish(r, n, data) ==
    IF r.frag
    THEN /\ rd' = resetFragment(r) /\ UNCHANGED msgReader
         /\ Return(n, "nil", 0, data, rc.hdr)
    ELSE /\ rd' = reset(r) /\ msgReader' = FALSE
         /\ Return(n, "EOF", 0, data, rc.hdr)

\* r.frame.Read(p) on the bounded, unmasking reader of the payload
ReadRaw ==
    LET a == Avail(inq)
        k == Min(Min(rc.buf, rd.N), a)
        data == Unmasked(rd, k)
        r1 == Taken(rd, k)
    IN /\ rd.N = 0 \/ a > 0 \/ inEof
       /\ inq' = Drop(k)
       /\ UNCHANGED codecs
       /\ IF rd.N # 0 /\ a = 0
          THEN /\ rd' = rd /\ UNCHANGED msgReader
               /\ Return(0, StreamEnd("ErrUnexpectedEOF"), 0, <<>>, rc.hdr)
          ELSE IF r1.N # 0
          THEN /\ rd' = r1 /\ UNCHANGED msgReader
               /\ Return(k, "nil", 0, data, rc.hdr)
          ELSE ReadFinish(r1, k, data)

\* r.frame.Read(p) on the flate reader: the inflater's buffered reader takes
\* the whole payload and the read tail, and hands out what fits into p; what
\* it keeps is lost when Read finds raw.N zero and resets the reader.
ReadFlate ==
    LET a == Avail(inq)
        k == Min(rd.N, a)
        z == Inflate(Unmasked(rd, k))
        n == Min(rc.buf, Len(z.data))
        r1 == Taken(rd, k)
    IN /\ a >= rd.N \/ inEof
       /\ inq' = Drop(k)
       /\ IF k < rd.N \/ ~z.ok
          THEN /\ rd' = r1 /\ UNCHANGED <<msgReader, codecs>>
               /\ \E e \in FlateErrors :
                     Return(0, IF k < rd.N THEN StreamEnd(e) ELSE e, 0, <<>>, rc.hdr)
          ELSE IF z.data = <<>>
          THEN /\ rd' = r1 /\ UNCHANGED <<msgReader, codecs>>
               /\ Return(0, "ErrUnexpectedEOF", 0, <<>>, rc.hdr)
          ELSE /\ codecs' = Inflated(codecs, z.data)
               /\ ReadFinish(r1, n, SubSeq(z.data, 1, n))

\* FrameReader.Read, called by Transport.Read on its message reader
RMsgRead ==
    /\ rc.pc = "mread"
    /\ IF rd.frame = "nil"
       THEN IF rd.frag
            THEN /\ rc' = [rc EXCEPT !.pc = "next", !.site = "mread"]
                 /\ UNCHANGED <<inq, rd, msgReader, rres, got, broken, codecs>>
            ELSE /\ Return(0, "ErrNoFrameAdvance", 0, <<>>, rc.hdr)
                 /\ UNCHANGED <<inq, rd, msgReader, codecs>>
       ELSE IF rd.frame = "flate" THEN ReadFlate ELSE ReadRaw
    /\ UNCHANGED auxVars /\ UNCHANGED <<cfg, hs, negotiated, inEof, pm, sent, expd, pings, wire, lock, nextId>>
    /\ UNCHANGED writerVars

\* ws.NewCloseFrame(ws.NewCloseFrameBody(code, reason)) before masking
CloseFrame(code, reason) ==
    LET body == NewCloseFrameBody(code, reason)
    IN [hdr |-> Header(TRUE, FALSE, OpClose, FALSE, NoMask, Len(body)), pay |-> body]
\* a control writer that loses what was written to it
ControlFrameEmpty(op, body) ==
    [hdr |-> Header(TRUE, FALSE, op, FALSE, NoMask, 0), pay |-> <<>>]

\* the frame a ControlWriter flushes
ControlFrame(op, body) ==
    [hdr |-> Header(TRUE, FALSE, op, FALSE, NoMask, Len(body)), pay |-> body]

\* FrameReader.Discard, then WriteClose(1003) in Transport.Read
RDiscard ==
    LET a == Avail(inq)
        k == Min(rd.N, a)
        r1 == Taken(rd, k)
    IN /\ rc.pc = "discard"
       /\ a >= rd.N \/ inEof
       /\ inq' = Drop(k)
       /\ IF rd.frag
          THEN /\ rd' = r1
               /\ rc' = [rc EXCEPT !.pc = "next", !.site = "discard"]
          ELSE /\ rd' = reset(r1)
               /\ rc' = [rc EXCEPT !.pc = "lock", !.lockNext = "whdr", !.after = "loop",
                                   !.out = CloseFrame(StatusUnsupportedData, ReasonText)]
       /\ UNCHANGED ctorVars /\ UNCHANGED auxVars /\ UNCHANGED <<cfg, inEof, pm, sent, msgReader, rres, got, expd, pings,
                      broken, wire, lock, nextId>>
       /\ UNCHANGED writerVars

\* -------------------------------------------------------- control frames
\* HandleClose once the close payload is in subp
CloseReply(c, data) ==
    LET code == ParseCloseFrameData(data)
        e == CheckCloseFrameData(code)
    IN IF e # "nil"
       THEN [c EXCEPT !.pc = "lock", !.lockNext = "whdr", !.herr = e,
                      !.out = CloseFrame(StatusProtocolError, ReasonText)]
       ELSE [c EXCEPT !.pc = "lock", !.lockNext = "whdr", !.herr = "ClosedError",
                      !.hcode = code, !.hreason = CloseReason(data),
                      !.out = ControlFrame(OpClose, SubSeq(data, 1, 2))]

\* The handler reads the payload of the control frame rc.hdr from its
\* source: the FrameReader (Transport.Read) or the frame (NextFrame).
RCtlRead ==
    LET a == Avail(inq)
        k == Min(rd.N, a)
        data == Unmasked(rd, k)
        full == (k = rd.N)
        r1 == Taken(rd, k)
        op == rc.hdr.op
        short == IF rc.src = "reader" \/ k > 0 THEN "ErrUnexpectedEOF" ELSE "EOF"
    IN /\ rc.pc = "ctlread"
       /\ a >= rd.N \/ inEof
       /\ inq' = Drop(k)
       /\ rd' = IF full /\ rc.src = "reader" THEN reset(r1) ELSE r1
       /\ rc' = IF op = OpPing
                THEN IF full \/ (rc.src = "frame" /\ k > 0)
                     THEN [rc EXCEPT !.pc = "whdr", !.out = ControlFrame(OpPong, data)]
                     ELSE [rc EXCEPT !.pc = "unlock",
                                     !.herr = IF rc.src = "frame" THEN "nil"
                                              ELSE "ErrUnexpectedEOF"]
                ELSE IF op = OpPong
                THEN [rc EXCEPT !.pc = "hdone",
                                !.herr = IF full \/ rc.src = "frame" THEN "nil"
                                         ELSE "ErrUnexpectedEOF"]
                ELSE IF full THEN CloseReply(rc, data)
                     ELSE [rc EXCEPT !.pc = "hdone", !.herr = short]
       /\ UNCHANGED ctorVars /\ UNCHANGED auxVars /\ UNCHANGED <<cfg, inEof, pm, sent, msgReader, rres, got, expd, pings,
                      broken, wire, lock, nextId>>
       /\ UNCHANGED writerVars

\* a lock that never makes a goroutine wait
LockAlwaysFree(l) == l = l

\* sync.Mutex.Lock returns once the lock l is free
LockFree(l) == l = "none"

\* writeLocker.Lock() in the reader goroutine
RLock ==
    /\ rc.pc = "lock"
    /\ LockFree(lock)
    /\ lock' = "reader"
    /\ rc' = [rc EXCEPT !.pc = rc.lockNext]
    /\ UNCHANGED ctorVars /\ UNCHANGED auxVars /\ UNCHANGED <<cfg, rd, msgReader, rres, got, expd, pings, broken, wire, nextId>>
    /\ UNCHANGED peerVars /\ UNCHANGED writerVars

\* tokens of the outbound stream
WireHdr(id, h) == [id |-> id, k |-> "h", hdr |-> h, pay |-> <<>>]
WirePay(id, p) == [id |-> id, k |-> "p", hdr |-> NilHeader, pay |-> p]
\* a reply masked from the second byte of the mask on
MaskedFromOne(f, mask) ==
    IF cfg.side = "client"
    THEN [hdr |-> [f.hdr EXCEPT !.masked = TRUE, !.mask = mask],
          pay |-> FastCipher(f.pay, mask, 1)]
    ELSE f

\* what a frame of T carries on the wire: masked by a client, plain by a server
Masked(f, mask) ==
    IF cfg.side = "client"
    THEN [hdr |-> [f.hdr EXCEPT !.masked = TRUE, !.mask = mask],
          pay |-> FastCipher(f.pay, mask, 0)]
    ELSE f

\* the reader goroutine writes the header of its reply
RWriteHdr ==
    /\ rc.pc = "whdr"
    /\ LET f == Masked(rc.out, OwnMask)
       IN /\ wire' = Append(wire, WireHdr(nextId + 1, f.hdr))
          /\ rc' = [rc EXCEPT !.out = f,
                              !.pc = IF f.hdr.len = 0 THEN "unlock" ELSE "wpay"]
    /\ nextId' = nextId + 1
    /\ UNCHANGED ctorVars /\ UNCHANGED auxVars /\ UNCHANGED <<cfg, rd, msgReader, rres, got, expd, pings, broken, lock>>
    /\ UNCHANGED peerVars /\ UNCHANGED writerVars

\* ... and its payload
RWritePay ==
    /\ rc.pc = "wpay"
    /\ wire' = Append(wire, WirePay(nextId, rc.out.pay))
    /\ rc' = [rc EXCEPT !.pc = "unlock"]
    /\ UNCHANGED ctorVars /\ UNCHANGED auxVars /\ UNCHANGED <<cfg, rd, msgReader, rres, got, expd, pings, broken, lock, nextId>>
    /\ UNCHANGED peerVars /\ UNCHANGED writerVars

\* writeLocker.Unlock(); WriteClose returns into the loop of Transport.Read,
\* the control handler returns to its caller
RUnlock ==
    /\ rc.pc = "unlock"
    /\ lock' = "none"
    /\ rc' = IF rc.after = "loop" THEN [rc EXCEPT !.pc = "next", !.site = "loop"]
             ELSE [rc EXCEPT !.pc = "hdone"]
    /\ UNCHANGED ctorVars /\ UNCHANGED auxVars /\ UNCHANGED <<cfg, rd, msgReader, rres, got, expd, pings, broken, wire, nextId>>
    /\ UNCHANGED peerVars /\ UNCHANGED writerVars

\* The control handler has returned rc.herr.
RHandlerDone ==
    /\ rc.pc = "hdone"
    /\ IF rc.src = "reader"
       THEN IF rc.herr = "nil"
            THEN /\ rc' = [rc EXCEPT !.pc = "next", !.site = "loop"]
                 /\ UNCHANGED <<rd, msgReader, rres, got, broken>>
            ELSE /\ Return(0, rc.herr, rc.hcode, <<>>, rc.hdr)
                 /\ UNCHANGED <<rd, msgReader>>
       ELSE IF rc.herr # "nil" THEN NextFrameFailed(rc.herr, rd, rc.hdr)
       ELSE IF rc.site = "mread"
            THEN /\ Return(0, "nil", 0, <<>>, rc.hdr)
                 /\ UNCHANGED <<rd, msgReader>>
       ELSE IF rc.site = "discard"
            THEN /\ rc' = [rc EXCEPT !.pc = "discard"]
                 /\ UNCHANGED <<rd, msgReader, rres, got, broken>>
            ELSE /\ rc' = HandlerEntry(rc, rc.hdr, "reader")
                 /\ UNCHANGED <<rd, msgReader, rres, got, broken>>
    /\ UNCHANGED ctorVars /\ UNCHANGED auxVars /\ UNCHANGED <<cfg, expd, pings, wire, lock, nextId>>
    /\ UNCHANGED peerVars /\ UNCHANGED writerVars

\* ----------------------------------------------------------------- Write
\* websocketTransport.opCode, set up by newWebsocketTransport
DefaultOpCode(c) == IF BitAnd(c.acceptMask, OpText) = 0 THEN OpBinary ELSE OpText

\* Write compressing whenever the option is on, whatever was negotiated
CompressedWithoutNegotiation(c, p) == c.compressEnabled /\ Len(p) >= c.threshold

\* the test at the head of Write: is this payload sent compressed
Compressed(c, p) == c.compressEnabled /\ c.negotiated /\ Len(p) >= c.threshold

\* packHeader: the header fields the packed bytes carry
packHeader(c, fin, mask, length, compressed) ==
    Header(fin, compressed, DefaultOpCode(c), c.side = "client",
           IF c.side = "client" THEN mask ELSE NoMask, length)

\* writeCompress up to the frame it writes
writeCompress(c, p, mask) ==
    LET z == FlateWriterOutput(p)
        body == IF c.side = "client" THEN FastCipher(z.out, mask, 0) ELSE z.out
    IN [err |-> z.err, hdr |-> packHeader(c, TRUE, mask, Len(z.out), TRUE), pay |-> body]

\* Write(p) up to the frame it writes under the lock
Write(c, p, mask) ==
    IF Compressed(c, p) THEN writeCompress(c, p, mask)
    ELSE [err |-> "nil", hdr |-> packHeader(c, TRUE, mask, Len(p), FALSE),
          pay |-> IF c.side = "client" THEN FastCipher(p, mask, 0) ELSE p]

\* the caller's slice p once Write(p) has returned: on a client the
\* uncompressed path runs FastCipher on p itself, the compressed path runs it
\* on the bytes of the payload buffer
PayloadAfterWrite(c, p, mask) ==
    IF ~Compressed(c, p) /\ c.side = "client" THEN FastCipher(p, mask, 0) ELSE p

\* WriteClose(code, reason) up to the frame it writes under the lock
WriteClose(c, code, reason, mask) ==
    LET f == CloseFrame(code, reason)
    IN IF c.side = "client"
       THEN [err |-> "nil", hdr |-> [f.hdr EXCEPT !.masked = TRUE, !.mask = mask],
             pay |-> FastCipher(f.pay, mask, 0)]
       ELSE [err |-> "nil", hdr |-> f.hdr, pay |-> f.pay]

\* the flate state once writeCompress has compressed p: a persistent writer
\* is Reset onto the payload buffer and takes p; without one a writer comes
\* from the pool and goes back to it
Compress(cd, c, p) ==
    IF Compressed(c, p) /\ cd.persistentFlateWriter.kind # "nil"
    THEN [cd EXCEPT !.persistentFlateWriter = FlateMessage(@, p)]
    ELSE cd

\* a goroutine calls Write(p)
WriteCall(w) ==
    /\ wr[w].pc = "idle" /\ writes < MaxWrites /\ ~codecs.closed
    /\ \E p \in DataPayloads :
         /\ wr' = [wr EXCEPT ![w] = [pc |-> "lock", q |-> <<Write(cfg, p, OwnMask)>>,
                                     id |-> 0, src |-> <<p>>,
                                     bufs |-> <<PayloadAfterWrite(cfg, p, OwnMask)>>,
                                     fn |-> "Write"]]
         /\ codecs' = Compress(codecs, cfg, p)
    /\ writes' = writes + 1
    /\ UNCHANGED auxVars /\ UNCHANGED <<cfg, hs, negotiated, wire, lock, nextId>>
    /\ UNCHANGED peerVars /\ UNCHANGED readerVars

\* a goroutine calls Writev with two buffers, the second of them of
\* MaxLen bytes: one Write for each
WritevCall(w) ==
    /\ wr[w].pc = "idle" /\ writes < MaxWrites /\ ~codecs.closed
    /\ \E p1 \in DataPayloads, p2 \in {p \in DataPayloads : Len(p) = MaxLen} :
         /\ wr' = [wr EXCEPT ![w] = [pc |-> "lock",
                                     q |-> <<Write(cfg, p1, OwnMask), Write(cfg, p2, OwnMask)>>,
                                     id |-> 0, src |-> <<p1, p2>>,
                                     bufs |-> <<PayloadAfterWrite(cfg, p1, OwnMask),
                                                PayloadAfterWrite(cfg, p2, OwnMask)>>,
                                     fn |-> "Writev"]]
         /\ codecs' = Compress(Compress(codecs, cfg, p1), cfg, p2)
    /\ writes' = writes + 1
    /\ UNCHANGED auxVars /\ UNCHANGED <<cfg, hs, negotiated, wire, lock, nextId>>
    /\ UNCHANGED peerVars /\ UNCHANGED readerVars

\* a goroutine calls WriteClose
WriteCloseCall(w) ==
    /\ wr[w].pc = "idle" /\ writes < MaxWrites /\ ~codecs.closed
    /\ wr' = [wr EXCEPT ![w] = [pc |-> "lock",
                                q |-> <<WriteClose(cfg, StatusProtocolError, ReasonText, OwnMask)>>,
                                id |-> 0, src |-> <<>>, bufs |-> <<>>, fn |-> "WriteClose"]]
    /\ writes' = writes + 1
    /\ UNCHANGED ctorVars /\ UNCHANGED auxVars /\ UNCHANGED <<cfg, wire, lock, nextId>>
    /\ UNCHANGED peerVars /\ UNCHANGED readerVars

\* writeLocker.Lock() in a writer goroutine
WLock(w) ==
    /\ wr[w].pc = "lock"
    /\ LockFree(lock)
    /\ lock' = w
    /\ wr' = [wr EXCEPT ![w].pc = "hdr"]
    /\ UNCHANGED ctorVars /\ UNCHANGED auxVars /\ UNCHANGED <<cfg, wire, nextId, writes>>
    /\ UNCHANGED peerVars /\ UNCHANGED readerVars

\* the writer goroutine writes the header of its frame
WHdr(w) ==
    /\ wr[w].pc = "hdr"
    /\ wire' = Append(wire, WireHdr(nextId + 1, Head(wr[w].q).hdr))
    /\ nextId' = nextId + 1
    /\ wr' = [wr EXCEPT ![w].id = nextId + 1,
                        ![w].pc = IF Head(wr[w].q).hdr.len = 0 THEN "unlock" ELSE "pay"]
    /\ UNCHANGED ctorVars /\ UNCHANGED auxVars /\ UNCHANGED <<cfg, lock, writes>>
    /\ UNCHANGED peerVars /\ UNCHANGED readerVars

\* ... and its payload
WPay(w) ==
    /\ wr[w].pc = "pay"
    /\ wire' = Append(wire, WirePay(wr[w].id, Head(wr[w].q).pay))
    /\ wr' = [wr EXCEPT ![w].pc = "unlock"]
    /\ UNCHANGED ctorVars /\ UNCHANGED auxVars /\ UNCHANGED <<cfg, lock, nextId, writes>>
    /\ UNCHANGED peerVars /\ UNCHANGED readerVars

\* writeLocker.Unlock(); Writev goes on with its next buffer
WUnlock(w) ==
    /\ wr[w].pc = "unlock"
    /\ lock' = "none"
    /\ wr' = [wr EXCEPT ![w].q = Tail(@),
                        ![w].pc = IF Len(wr[w].q) = 1 THEN "idle" ELSE "lock"]
    /\ UNCHANGED ctorVars /\ UNCHANGED auxVars /\ UNCHANGED <<cfg, wire, nextId, writes>>
    /\ UNCHANGED peerVars /\ UNCHANGED readerVars

\* ------------------------------------------------------ the paired peer
\* the transport at the other end of the connection, built from the same
\* options and the same handshake
PeerCfg == [cfg EXCEPT !.side = Other(cfg.side)]

\* the peer transport writes the message p with Write
PeerWrite ==
    /\ PeerTurn
    /\ sent < MaxWrites
    /\ \E p \in DataPayloads, mask \in MaskSet :
         LET f == Write(PeerCfg, p, mask)
         IN /\ PeerCfg.side = "server" => mask = PeerMask
            /\ f.err = "nil"
            /\ inq' = <<HdrTok(f.hdr, p)>> \o Toks(f.pay)
            /\ pm' = [pm EXCEPT !.data = p, !.open = FALSE]
    /\ sent' = sent + 1
    /\ UNCHANGED ctorVars /\ UNCHANGED auxVars /\ UNCHANGED <<cfg, inEof, wire, lock, nextId>>
    /\ UNCHANGED readerVars /\ UNCHANGED writerVars

\* a peer sends a ping or a close frame while T's goroutines write
PeerSendControl ==
    /\ PeerTurn
    /\ sent < MaxProbes
    /\ \E f \in {x \in FramesOf(Other(cfg.side)) :
                    x.op = OpPing \/ (x.op = OpClose /\ x.plain = CodeBytes(4))} :
         PeerSend(f, Len(f.plain))
    /\ UNCHANGED ctorVars /\ UNCHANGED auxVars /\ UNCHANGED <<cfg, wire, lock, nextId>>
    /\ UNCHANGED readerVars /\ UNCHANGED writerVars

\* --------------------------------------------------------- specifications
\* T reads what a peer following the framing rules sends.
FrameConfigs ==
    {c \in Configs : /\ c.compressEnabled /\ c.negotiated /\ c.threshold = 1
                     /\ c.acceptMask \in {1, 2}
                     /\ c.maxFrameSize = 0 \/ c.acceptMask = 1}
Init == cfg \in FrameConfigs /\ InitCommon
Next ==
    \/ ReadCall
    \/ RNextFrame
    \/ RMsgRead
    \/ RDiscard
    \/ RCtlRead
    \/ RLock
    \/ RWriteHdr
    \/ RWritePay
    \/ RUnlock
    \/ RHandlerDone
    \/ PeerSendFrame
    \/ PeerEof
    \/ PeerCutHeader
Spec == Init /\ [][Next]_vars

\* T reads whatever one frame a peer sends.
ProbeConfigs == {c \in Configs : c.compressEnabled /\ c.threshold = 1}
InitProbe == cfg \in ProbeConfigs /\ InitCommon
NextProbe ==
    \/ ReadCall
    \/ RNextFrame
    \/ RMsgRead
    \/ RDiscard
    \/ RCtlRead
    \/ RLock
    \/ RWriteHdr
    \/ RWritePay
    \/ RUnlock
    \/ RHandlerDone
    \/ PeerSendAny
    \/ PeerEof
    \/ PeerCutHeader
SpecProbe == InitProbe /\ [][NextProbe]_vars

\* T reads the messages its paired transport writes.
PairConfigs == {c \in Configs : c.maxFrameSize = 0}
InitPair == cfg \in PairConfigs /\ InitCommon
NextPair ==
    \/ ReadCall
    \/ RNextFrame
    \/ RMsgRead
    \/ PeerWrite
SpecPair == InitPair /\ [][NextPair]_vars

\* T's goroutines write while its reader answers control frames.
WriterConfigs ==
    {c \in Configs : /\ c.maxFrameSize = 0 /\ c.buf = 1 /\ c.acceptMask = 1
                     /\ c.threshold = 2 /\ c.compressEnabled /\ c.negotiated}
InitWriters == cfg \in WriterConfigs /\ InitCommon
NextWriters ==
    \/ \E w \in Writers : WriteCall(w)
    \/ \E w \in Writers : WritevCall(w)
    \/ \E w \in Writers : WriteCloseCall(w)
    \/ \E w \in Writers : WLock(w)
    \/ \E w \in Writers : WHdr(w)
    \/ \E w \in Writers : WPay(w)
    \/ \E w \in Writers : WUnlock(w)
    \/ ReadCall
    \/ RNextFrame
    \/ RCtlRead
    \/ RLock
    \/ RWriteHdr
    \/ RWritePay
    \/ RUnlock
    \/ RHandlerDone
    \/ PeerSendControl
SpecWriters == InitWriters /\ [][NextWriters]_vars

\* One goroutine of T writes, under every configuration.
WriteConfigs == {c \in Configs : c.maxFrameSize = 0 /\ c.buf = 1}
InitWrite == cfg \in WriteConfigs /\ InitCommon
NextWrite ==
    \/ WriteCall("w1")
    \/ WritevCall("w1")
    \/ WriteCloseCall("w1")
    \/ WLock("w1")
    \/ WHdr("w1")
    \/ WPay("w1")
    \/ WUnlock("w1")
SpecWrite == InitWrite /\ [][NextWrite]_vars

\* ------------------------------------------------ construction and Close
\* newWebsocketTransport: the handshake is parsed and the persistent flate
\* instances are set up
NewTransport ==
    /\ ~codecs.built
    /\ negotiated' = Negotiated(hs)
    /\ codecs' = newWebsocketTransport(cfg, hs)
    /\ UNCHANGED auxVars /\ UNCHANGED <<cfg, hs, rd, msgReader, rc, rres, got, expd, pings, broken, wire, lock, nextId>>
    /\ UNCHANGED peerVars /\ UNCHANGED writerVars

\* a Close that releases the persistent instances and keeps its references
CloseKeeping(cd) ==
    LET l1 == IF cd.persistentFlateReader.kind # "nil"
              THEN cd.log \o <<"ResetReader", "PutReader">> ELSE cd.log
        l2 == IF cd.persistentFlateWriter.kind # "nil"
              THEN l1 \o <<"ResetWriter", "PutWriter">> ELSE l1
    IN [cd EXCEPT !.log = Append(l2, "CloseStream"), !.closed = TRUE]

\* Transport.Close
Close(cd) ==
    LET l1 == IF cd.persistentFlateReader.kind # "nil"
              THEN cd.log \o <<"ResetReader", "PutReader">> ELSE cd.log
        l2 == IF cd.persistentFlateWriter.kind # "nil"
              THEN l1 \o <<"ResetWriter", "PutWriter">> ELSE l1
    IN [cd EXCEPT !.persistentFlateReader = NoFlate,
                  !.persistentFlateWriter = NoFlate,
                  !.log = Append(l2, "CloseStream"), !.closed = TRUE]

Count(l, e) == Cardinality({i \in 1 .. Len(l) : l[i] = e})

\* Close is called while no Read and no Write is under way.  The bytes the
\* stream has delivered either stay readable in the transport's read buffer
\* or are gone with the stream.
CloseCall ==
    /\ codecs.built /\ Count(codecs.log, "CloseStream") < MaxCloses
    /\ rc.pc = "idle" /\ \A w \in Writers : wr[w].pc = "idle"
    /\ codecs' = Close(codecs)
    /\ inEof' = TRUE
    /\ inq' \in {inq, <<>>}
    /\ UNCHANGED auxVars /\ UNCHANGED <<cfg, hs, negotiated, pm, sent, rd, msgReader, rc, rres, got, expd, pings,
                   broken, wire, lock, nextId>>
    /\ UNCHANGED writerVars

\* Write, Writev or WriteClose is called after Close: the frame is built as
\* before (no persistent writer is left) and handed to the closed stream,
\* whose answer the call returns: the stream's write buffer takes the frame
\* (nil) or the stream rejects it.
WriteAfterClose(w) ==
    /\ codecs.closed /\ wr[w].pc = "idle" /\ writes < MaxWrites
    /\ \E e \in {"nil", "ErrClosed"} : codecs' = [codecs EXCEPT !.after = e]
    /\ writes' = writes + 1
    /\ UNCHANGED auxVars /\ UNCHANGED <<cfg, hs, negotiated, wire, lock, nextId, wr>>
    /\ UNCHANGED peerVars /\ UNCHANGED readerVars

\* T and its peer exchange messages with and without context takeover, and
\* T is closed.
CodecConfigs ==
    {c \in Configs : c.acceptMask = 3 /\ c.threshold = 1 /\ c.maxFrameSize = 0}
InitCodec ==
    /\ hs \in {<<>>, <<Takeover>>, <<NoTakeover>>}
    /\ cfg \in {c \in CodecConfigs : c.negotiated = Negotiated(hs).enabled}
    /\ negotiated = Negotiated(hs)
    /\ codecs = newWebsocketTransport(cfg, hs)
    /\ InitIdle
    /\ InitAux
NextCodec ==
    \/ ReadCall
    \/ RNextFrame
    \/ RMsgRead
    \/ PeerWrite
    \/ WriteCall("w1")
    \/ WLock("w1")
    \/ WHdr("w1")
    \/ WPay("w1")
    \/ WUnlock("w1")
    \/ WriteAfterClose("w1")
    \/ CloseCall
SpecCodec == InitCodec /\ [][NextCodec]_vars

\* T is built from a handshake and closed.
ParseConfigs ==
    {c \in Configs : c.acceptMask = 3 /\ c.threshold = 1 /\ c.maxFrameSize = 0 /\ c.buf = MaxBuf}
InitParse ==
    /\ hs \in Handshakes
    /\ cfg \in {c \in ParseConfigs : c.negotiated = Negotiated(hs).enabled}
    /\ negotiated = ZeroNegotiated
    /\ codecs = NoCodecs
    /\ InitIdle
    /\ InitAux
NextParse ==
    \/ NewTransport
    \/ CloseCall
SpecParse == InitParse /\ [][NextParse]_vars

\* ----------------------------------------------------------------- claims
\* the data frames T has put on the wire
DataHeaders == {i \in 1 .. Len(wire) : wire[i].k = "h" /\ IsData(wire[i].hdr.op)}

\* C1: on a transport on which permessage-deflate was not negotiated, every
\* frame that Write and Writev emit has RSV1 = 0, whatever CompressEnabled,
\* CompressThreshold and the length of the payload are.
NoRsv1WithoutNegotiation ==
    ~cfg.negotiated => \A i \in DataHeaders : ~wire[i].hdr.rsv1

\* a Writev of two buffers, the first at least CompressThreshold long, has
\* put both frames on the wire of a transport with CompressEnabled that has
\* not negotiated the extension
WitnessC1 ==
    /\ ~cfg.negotiated /\ cfg.compressEnabled
    /\ wr["w1"].fn = "Writev" /\ wr["w1"].pc = "idle"
    /\ Len(wr["w1"].src[1]) >= cfg.threshold
    /\ Cardinality(DataHeaders) = 2
    /\ \A i \in DataHeaders : ~wire[i].hdr.rsv1

\* C2: with several goroutines writing at once (Write, Writev, WriteClose and
\* the reader's pong and close replies), the wire is a concatenation of whole
\* frames: the payload of a frame follows its header at once, and no payload
\* stands without its header.
FramesWhole ==
    \A i \in 1 .. Len(wire) :
       /\ (wire[i].k = "h" /\ wire[i].hdr.len > 0 /\ i < Len(wire))
            => /\ wire[i + 1].k = "p"
               /\ wire[i + 1].id = wire[i].id
               /\ Len(wire[i + 1].pay) = wire[i].hdr.len
       /\ wire[i].k = "p"
            => i > 1 /\ wire[i - 1].k = "h" /\ wire[i - 1].id = wire[i].id

\* the reader has written the header of a pong and holds the lock, both
\* writer goroutines wait for the lock, and a frame is already on the wire
WitnessC2 ==
    /\ rc.pc = "wpay" /\ rc.out.hdr.op = OpPong /\ lock = "reader"
    /\ \A w \in Writers : wr[w].pc = "lock"
    /\ Len(wire) >= 3

\* C3: a client's Write of an n-byte message m without compression makes the
\* server's successive Reads deliver exactly the bytes of m and then the
\* end-of-message marker, for every size of the Read buffer: every Read
\* returns the next bytes of m, and io.EOF comes with the last of them.
RawRoundTrip ==
    (cfg.side = "server" /\ rres.err # "none" /\ ~Compressed(PeerCfg, rres.expd))
      => /\ rres.err \in {"nil", "EOF"}
         /\ IsPrefix(rres.msg, rres.expd)
         /\ rres.err = "EOF" => rres.msg = rres.expd
         /\ rres.err = "nil" => rres.n > 0 /\ Len(rres.msg) < Len(rres.expd)

\* a server reading with a one-byte buffer has delivered a message of MaxLen
\* bytes that its client sent uncompressed
WitnessC3 ==
    /\ cfg.side = "server" /\ cfg.buf = 1 /\ ~cfg.compressEnabled
    /\ rres.err = "EOF" /\ rres.n = 1
    /\ Len(rres.msg) = MaxLen /\ rres.msg = rres.expd

\* C4: with compression enabled and negotiated, Write sets RSV1 exactly when
\* the payload is at least CompressThreshold long, and in both cases the
\* peer's Reads deliver the original payload and then the end-of-message
\* marker.
CompressedRoundTrip ==
    (cfg.compressEnabled /\ cfg.negotiated)
      => /\ \A i \in 1 .. Len(inq) :
              inq[i].t = "h" => (inq[i].hdr.rsv1 <=> Len(inq[i].g) >= cfg.threshold)
         /\ rres.err # "none"
              => /\ rres.err \in {"nil", "EOF"}
                 /\ IsPrefix(rres.msg, rres.expd)
                 /\ rres.err = "EOF" => rres.msg = rres.expd

\* C5: Read returns io.EOF only as the end-of-message marker, when every
\* payload byte of the message has been delivered; a stream that ends at a
\* frame boundary, inside a payload or inside a fragmented sequence makes
\* Read return io.ErrUnexpectedEOF, never io.EOF.
EofOnlyAtMessageEnd ==
    rres.err = "EOF" => (rres.msg = rres.expd /\ ~rres.frag)

\* the payloads, as the peer unmasks them, of the frames with opcode op that
\* the transport has put on the wire w
RECURSIVE Replies(_, _)
Replies(w, op) ==
    IF w = <<>> THEN <<>>
    ELSE IF Head(w).k = "h" /\ Head(w).hdr.op = op
    THEN LET pay == IF Head(w).hdr.len = 0 \/ Len(w) < 2 THEN <<>> ELSE w[2].pay
             plain == IF Head(w).hdr.masked THEN FastCipher(pay, Head(w).hdr.mask, 0)
                      ELSE pay
         IN <<plain>> \o Replies(Tail(w), op)
    ELSE Replies(Tail(w), op)

\* C6: for a message received as a first frame with fin=false followed by
\* continuation frames, with ping/pong frames between the fragments, the
\* successive Reads deliver exactly the fragments' payloads in order and then
\* one end-of-message marker; no control payload byte is delivered and each
\* ping is answered by one pong carrying its payload.
FragmentsDelivered ==
    /\ (rres.err = "nil" /\ ~rres.eof) => IsPrefix(rres.msg, rres.expd)
    /\ (rres.err = "EOF" /\ ~rres.eof) => (rres.msg = rres.expd /\ ~rres.frag)
    /\ (~inEof /\ ~pm.closed /\ rc.pc \in {"idle", "next", "mread", "discard"})
         => Replies(wire, OpPong) = [i \in 1 .. Len(pings) |-> pings[i].pay]

\* a three-frame message text(fin=false), ping, continuation(fin=true) has
\* been read to its end and the ping answered
WitnessC6 ==
    /\ rres.err = "EOF" /\ ~rres.eof /\ sent = 3
    /\ Len(pings) = 1 /\ pings[1].frag /\ pings[1].pay # <<>>
    /\ Replies(wire, OpPong) = <<pings[1].pay>>
    /\ Len(rres.msg) = MaxLen + 1 /\ rres.msg = rres.expd

\* C7: in Transport.Read every inbound control frame (ping, pong, close) goes
\* to the control-frame handler before the accept mask is tested, for every
\* accept mask: the step that takes a control header from the stream either
\* enters the handler or fails the header check; it never starts a discard or
\* a message, and what is discarded and answered with status 1003 is never a
\* control frame.
ControlBeforeMask ==
    /\ [](rc.pc = "discard" => ~IsControl(rd.opCode))
    /\ [][(/\ rc.pc = "next" /\ rc.site = "loop"
           /\ inq # <<>> /\ Head(inq).t = "h" /\ IsControl(Head(inq).hdr.op))
          => (/\ rc'.pc \in {"lock", "ctlread", "hdone", "idle"}
              /\ rc'.pc = "idle" => rres'.err \notin {"nil", "EOF"}
              /\ rc'.pc # "idle" => (rc'.after = "handler" /\ rc'.hdr = Head(inq).hdr))]_vars

\* a ping is being answered by a transport whose accept mask has no bit in
\* common with the ping opcode
WitnessC7 ==
    /\ BitAnd(OpPing, cfg.acceptMask) = 0
    /\ rc.hdr.op = OpPing /\ rc.src = "reader" /\ rc.pc = "whdr"
    /\ rc.out.hdr.op = OpPong /\ rc.after = "handler"

\* the close frame Transport.Read sends for a message it does not accept
UnsupportedClose == CloseFrame(StatusUnsupportedData, ReasonText)

\* C8: a non-control message whose opcode is not in the accept mask is
\* discarded with all its fragments; Read then sends a close frame with status
\* 1003 and goes on with the next frame without returning to its caller, and
\* no byte of a message outside the accept mask is ever delivered.
UnsupportedDiscarded ==
    /\ [](rres.n > 0 => BitAnd(rres.op, cfg.acceptMask) # 0)
    /\ [][rc.pc = "discard"
          => (/\ rc'.pc \in {"next", "lock"} /\ rres' = rres /\ inq' = <<>>
              /\ rc'.pc = "next" => (rd.frag /\ rc'.site = "discard")
              /\ rc'.pc = "lock" => (/\ ~rd.frag /\ rd'.N = 0 /\ rd'.frame = "nil"
                                     /\ rc'.out = UnsupportedClose
                                     /\ rc'.after = "loop"))]_vars
    /\ [][(rc.pc = "unlock" /\ rc.after = "loop")
          => (/\ rc'.pc = "next" /\ rc'.site = "loop" /\ rres' = rres
              /\ Replies(wire, OpClose)[Len(Replies(wire, OpClose))]
                   = UnsupportedClose.pay)]_vars

\* both fragments of a message outside the accept mask have been discarded
\* and answered with status 1003, and Read, which has not returned, waits
\* for the next frame
WitnessC8 ==
    /\ rc.pc = "next" /\ rc.site = "loop" /\ rc.after = "loop"
    /\ rc.hdr.op = OpContinuation /\ rc.hdr.fin /\ sent = 2
    /\ ~rd.frag
    /\ rres.err = "none" /\ inq = <<>>
    /\ Replies(wire, OpClose) = <<UnsupportedClose.pay>>

\* NextFrame is about to take from the stream a header whose length is above
\* a positive MaxFrameSize
OversizedHeader ==
    /\ rc.pc = "next" /\ inq # <<>> /\ Head(inq).t = "h"
    /\ cfg.maxFrameSize > 0 /\ Head(inq).hdr.len > cfg.maxFrameSize

\* C9 as stated: with MaxFrameSize = L > 0 every inbound frame whose header
\* length exceeds L makes NextFrame/Read fail with FrameTooLarge before any
\* payload byte of the frame is consumed.
OversizedAlwaysTooLarge ==
    [][OversizedHeader
       => (/\ rc'.pc = "idle" /\ rres'.n = 0 /\ inq' = Tail(inq)
           /\ rres'.err = "ErrFrameTooLarge")]_vars

\* C9, amended: with MaxFrameSize = L > 0 every inbound frame whose length
\* exceeds L makes NextFrame/Read fail before any payload byte of the frame is
\* consumed: with FrameTooLarge when the header passes the header check, and
\* with the header check's protocol error otherwise.  The limit is tested per
\* frame: only a frame longer than L is rejected for size, whatever the length
\* of the message it belongs to.
FrameSizeLimit ==
    /\ [](rres.err = "ErrFrameTooLarge"
            => (cfg.maxFrameSize > 0 /\ rres.hdr.len > cfg.maxFrameSize))
    /\ [][OversizedHeader
          => LET e == CheckHeader(Head(inq).hdr, cfg.side, TRUE, rd.frag)
             IN /\ rc'.pc = "idle" /\ rres'.n = 0 /\ inq' = Tail(inq)
                /\ rres'.hdr = Head(inq).hdr
                /\ rres'.err = IF e = "nil" THEN "ErrFrameTooLarge" ELSE e]_vars

\* a continuation frame longer than MaxFrameSize has been rejected after a
\* fragment within the limit was read; its payload is still in the stream
WitnessC9 ==
    /\ rres.err = "ErrFrameTooLarge" /\ rres.n = 0
    /\ rres.hdr.op = OpContinuation /\ rres.frag
    /\ rres.hdr.len > cfg.maxFrameSize /\ Avail(inq) = rres.hdr.len

\* C10: when a frame with RSV1 set is received on a transport for which
\* compression was not negotiated, Read fails with a protocol error and a
\* close frame with status 1002 is emitted; the payload is not inflated and
\* delivered as a message.
Rsv1WithoutNegotiationRejected ==
    (~cfg.negotiated /\ rres.err # "none" /\ rres.hdr.rsv1)
      => /\ rres.n = 0 /\ rres.err \notin {"nil", "EOF"}
         /\ \E i \in 1 .. Len(Replies(wire, OpClose)) :
              Replies(wire, OpClose)[i] = CloseFrame(StatusProtocolError, ReasonText).pay

\* the errors of ws.CheckHeader, wsflate.IsCompressed and
\* ws.CheckCloseFrameData
ProtocolErrors ==
    {"ErrProtocolOpCodeReserved", "ErrProtocolControlPayloadOverflow",
     "ErrProtocolControlNotFinal", "ErrProtocolNonZeroRsv", "ErrProtocolMaskRequired",
     "ErrProtocolMaskUnexpected", "ErrProtocolContinuationExpected",
     "ErrProtocolContinuationUnexpected", "ErrProtocolInvalidCloseCode",
     "ErrUnexpectedCompressionBit"}

\* the scaled close status that matches an error of Read: 1002 for a protocol
\* error, 1009 for a frame that is too large, 1011 for a failed inflation
MatchingStatus(e) ==
    IF e = "ErrFrameTooLarge" THEN StatusProtocolError + 7
    ELSE IF e = "CorruptInputError" THEN StatusProtocolError + 9
    ELSE StatusProtocolError

\* C11: whenever Read fails with a protocol error, a frame-too-large error or
\* a compression failure, a close frame carrying the matching status (1002,
\* 1009, 1011) has been written to the peer before the error is returned.
ErrorsAnnounced ==
    (rres.err \in ProtocolErrors \cup {"ErrFrameTooLarge", "CorruptInputError"})
      => \E i \in 1 .. Len(Replies(wire, OpClose)) :
            /\ Len(Replies(wire, OpClose)[i]) >= 2
            /\ SubSeq(Replies(wire, OpClose)[i], 1, 2) = CodeBytes(MatchingStatus(rres.err))

\* HandleClose has answered a close frame of the peer: a close frame that is
\* neither the 1003 of Transport.Read nor the 1002 of a rejected close payload
\* is on the wire.  Read reports PeerClosed right after writing it.
PeerCloseAnswered ==
    \E i \in 1 .. Len(Replies(wire, OpClose)) :
        Replies(wire, OpClose)[i] \notin
            {UnsupportedClose.pay, CloseFrame(StatusProtocolError, ReasonText).pay}

\* C12: after close, no further application frames are delivered: once Read
\* has reported the peer's close frame, no later Read call returns payload
\* bytes, even if data frames follow the close frame on the stream.
NoDeliveryAfterClose ==
    (rc.pc = "idle" /\ PeerCloseAnswered) => rres.n = 0

\* Read has returned for a close frame that NextFrame accepted and whose
\* payload arrived whole
CloseFrameHandled ==
    /\ rc.pc = "idle" /\ rres.err # "none" /\ ~rres.eof
    /\ rres.hdr.op = OpClose /\ rres.hdr.len = Len(pm.close)
    /\ CheckHeader(rres.hdr, cfg.side, TRUE, rres.frag) = "nil"
    /\ ~rres.hdr.rsv1 /\ ~TooLarge(cfg, rres.hdr)

\* the close frame T wrote last carries the payload x, and T has written at
\* most one close frame for each frame the peer has sent
LastReply(x) ==
    LET r == Replies(wire, OpClose)
    IN r # <<>> /\ r[Len(r)] = x /\ Len(r) <= sent

EveryPingOnePong ==
    /\ (~inEof /\ rc.pc \in {"idle", "next", "mread", "discard"})
         => Replies(wire, OpPong) = [i \in 1 .. Len(pings) |-> pings[i].pay]
    /\ rc.pc \in {"whdr", "wpay"} => lock = "reader"
    /\ \A i \in 1 .. Len(wire) :
         (wire[i].k = "h" /\ wire[i].hdr.op = OpPong)
           => (wire[i].hdr.masked <=> cfg.side = "client")
    /\ rres.n > 0 => IsPrefix(rres.msg, rres.expd)


\* the first permessage-deflate entry of the handshake h, 0 when it has none
FirstDeflate(h) ==
    IF \E i \in 1 .. Len(h) : h[i].name = "permessage-deflate"
    THEN CHOOSE i \in 1 .. Len(h) :
            /\ h[i].name = "permessage-deflate"
            /\ \A j \in 1 .. i - 1 : h[j].name # "permessage-deflate"
    ELSE 0
\* a parameter's value as a base-10 integer of one or two digits, 0 when the
\* parameter is absent, empty or not a number
Numeral(par) ==
    IF par.ok /\ Len(par.v) = 1 /\ par.v[1] < NotDigit THEN par.v[1]
    ELSE IF par.ok /\ Len(par.v) = 2 /\ par.v[1] < NotDigit /\ par.v[2] < NotDigit
    THEN (10 * par.v[1]) + par.v[2]
    ELSE 0

PersistentInflaterIff ==
    (codecs.built /\ ~codecs.closed) =>
        (codecs.persistentFlateReader.kind # "nil"
            <=> /\ cfg.compressEnabled
                /\ negotiated.enabled
                /\ cfg.side = "client" => ~negotiated.serverNoContextTake
                /\ cfg.side = "server" => ~negotiated.clientNoContextTake)
\* a client whose own flag is set and whose peer's flag is not holds a
\* persistent inflater
WitnessC17 ==
    /\ codecs.built /\ ~codecs.closed /\ cfg.side = "client"
    /\ negotiated.clientNoContextTake /\ ~negotiated.serverNoContextTake
    /\ codecs.persistentFlateReader.kind = "pool" /\ codecs.override

FirstOccurrenceWins ==
    codecs.built =>
        LET i == FirstDeflate(hs)
        IN IF i = 0 THEN negotiated = ZeroNegotiated
           ELSE /\ negotiated.enabled
                /\ negotiated.clientNoContextTake = hs[i].client_no_context_takeover.ok
                /\ negotiated.serverNoContextTake = hs[i].server_no_context_takeover.ok
                /\ negotiated.clientMaxWindowBits = Numeral(hs[i].client_max_window_bits)
                /\ negotiated.serverMaxWindowBits = Numeral(hs[i].server_max_window_bits)
\* two permessage-deflate entries that differ in every parameter have been
\* parsed: the first one's window of 15 bits and its non-numeric value are in
\* the result, the second one's flags and window are not
WitnessC19 ==
    /\ codecs.built /\ Len(hs) = 2
    /\ hs[1].name = "permessage-deflate" /\ hs[2].name = "permessage-deflate"
    /\ hs[1].client_max_window_bits = Param(TRUE, <<1, 5>>)
    /\ hs[1].server_max_window_bits = Param(TRUE, <<1, NotDigit>>)
    /\ ~hs[1].client_no_context_takeover.ok /\ hs[2].client_no_context_takeover.ok
    /\ hs[2].server_max_window_bits = Param(TRUE, <<1, 5>>)
    /\ negotiated = [ZeroNegotiated EXCEPT !.enabled = TRUE, !.clientMaxWindowBits = 15]

\* C16: once Close has returned, every further Read returns an error and no
\* bytes, every further Write, Writev and WriteClose returns an error, and
\* neither runs into a persistent codec that Close has released.
ClosedForGood ==
    /\ [](~codecs.panic /\ codecs.after # "nil")
    /\ [][(codecs.closed /\ rc.pc # "idle" /\ rc'.pc = "idle")
            => (rres'.n = 0 /\ rres'.err \notin {"none", "nil"})]_vars

\* the history f held when it began its latest message ends with the message
\* before that one
HistoryKept(f) ==
    /\ Len(f.base) >= Len(f.prev)
    /\ SubSeq(f.base, Len(f.base) - Len(f.prev) + 1, Len(f.base)) = f.prev

\* C20: while a persistent deflater is held, the history built while it
\* compressed message k is in the compressor when it compresses message k+1:
\* the Reset onto the new output buffer does not discard it.  Likewise the
\* persistent inflater holds the history of message k when it inflates
\* message k+1.
ContextTakenOver ==
    /\ codecs.persistentFlateWriter.n >= 2 => HistoryKept(codecs.persistentFlateWriter)
    /\ codecs.persistentFlateReader.n >= 2 => HistoryKept(codecs.persistentFlateReader)

\* ---------------------------------------------------------------------------
\* wsAcceptor: Listen, the upgrade handler, Accept and Close
\* ---------------------------------------------------------------------------

MinBacklog == 64
Backlogs == {0, MinBacklog + 1}
Closers == {"c1", "c2"}

\* capacity of the incoming channel
Backlog(b) == IF b < MinBacklog THEN MinBacklog ELSE b

\* the acceptor Listen returns: an empty queue of Backlog(b) slots, the closed
\* signal not raised, the HTTP server serving; no goroutine uses it yet
Listen(b) ==
    [ built        |-> TRUE,
      backlog      |-> b,
      cap          |-> Backlog(b),
      incoming     |-> 0,       \* upgraded connections in the channel
      closedSignal |-> FALSE,
      serving      |-> TRUE,    \* httpServer accepts requests
      upgrading    |-> 0,       \* handlers inside Upgrader.Upgrade
      waiting      |-> 0,       \* handlers at the select, upgraded while open
      late         |-> 0,       \* handlers at the select, upgraded after Close returned
      apc          |-> "idle",  \* the goroutine that calls Accept
      afterClose   |-> FALSE,   \* its current call began after a Close returned
      res          |-> "none",  \* what its last call returned
      cpc          |-> [c \in Closers |-> "idle"],
      later        |-> [c \in Closers |-> FALSE],  \* call began after a Close returned
      calls        |-> 0,
      signals      |-> 0,       \* close(closedSignal) executed
      serverCloses |-> 0,       \* httpServer.Close executed
      returned     |-> FALSE,   \* some Close call has returned
      sentClosed   |-> FALSE,   \* some handler has enqueued with the signal raised
      panic        |-> FALSE ]

Running == acc.built /\ ~acc.panic

AccStep(a) == acc' = a /\ UNCHANGED transportVars /\ UNCHANGED <<hc, ciph, cb, pw>>

\* the HTTP server hands a request to upgradeHTTP
ServeHTTP ==
    /\ Running
    /\ acc.serving
    /\ acc.upgrading + acc.waiting + acc.late < MaxHandlers
    /\ AccStep([acc EXCEPT !.upgrading = @ + 1])

\* Upgrader.Upgrade fails: the handler closes what it got and returns
UpgradeErr ==
    /\ Running
    /\ acc.upgrading > 0
    /\ AccStep([acc EXCEPT !.upgrading = @ - 1])

\* Upgrader.Upgrade succeeds: the handler reaches its select
UpgradeOk ==
    /\ Running
    /\ acc.upgrading > 0
    /\ IF acc.returned
         THEN AccStep([acc EXCEPT !.upgrading = @ - 1, !.late = @ + 1])
         ELSE AccStep([acc EXCEPT !.upgrading = @ - 1, !.waiting = @ + 1])

\* a handler whose select has a default case that closes the connection
upgradeHTTPDropping ==
    /\ Running
    /\ \E k \in {"waiting", "late"} :
        /\ acc[k] > 0
        /\ IF acc.incoming < acc.cap
             THEN AccStep([acc EXCEPT ![k] = @ - 1, !.incoming = @ + 1,
                                      !.sentClosed = @ \/ acc.closedSignal])
             ELSE AccStep([acc EXCEPT ![k] = @ - 1])

\* the handler's select: with the signal raised it may close its connection,
\* with a free slot it may enqueue; with both ready either case runs
upgradeHTTP ==
    /\ Running
    /\ \E k \in {"waiting", "late"} :
        /\ acc[k] > 0
        /\ \/ /\ acc.closedSignal
              /\ AccStep([acc EXCEPT ![k] = @ - 1])
           \/ /\ acc.incoming < acc.cap
              /\ AccStep([acc EXCEPT ![k] = @ - 1, !.incoming = @ + 1,
                                      !.sentClosed = @ \/ acc.closedSignal])

\* Accept is called
AcceptCall ==
    /\ Running
    /\ acc.apc = "idle"
    /\ AccStep([acc EXCEPT !.apc = "select", !.afterClose = acc.returned,
                           !.res = "none"])

\* Accept's select: an event from the queue becomes a transport (or is closed
\* when the constructor fails); with the signal raised the drain loop may start
Accept ==
    /\ Running
    /\ acc.apc = "select"
    /\ \/ /\ acc.incoming > 0
          /\ \E r \in {"transport", "ctorError"} :
                AccStep([acc EXCEPT !.incoming = @ - 1,
                                    !.apc = "idle", !.res = r])
       \/ /\ acc.closedSignal
          /\ AccStep([acc EXCEPT !.apc = "drain"])

\* one turn of the drain loop: close a queued connection, or return the error
AcceptDrain ==
    /\ Running
    /\ acc.apc = "drain"
    /\ IF acc.incoming > 0
         THEN AccStep([acc EXCEPT !.incoming = @ - 1])
         ELSE AccStep([acc EXCEPT !.apc = "idle", !.res = "error"])

\* Close is called
AcceptorCloseCall(c) ==
    /\ Running
    /\ acc.cpc[c] = "idle"
    /\ acc.calls < MaxCloses
    /\ AccStep([acc EXCEPT !.cpc[c] = "select", !.calls = @ + 1,
                           !.later[c] = acc.returned])

\* Close without the check of the closed signal
AcceptorCloseSelectBlind(c) ==
    /\ Running
    /\ acc.cpc[c] = "select"
    /\ AccStep([acc EXCEPT !.cpc[c] = "signal"])

\* Close's select: return nil when the signal is raised, else go on
AcceptorCloseSelect(c) ==
    /\ Running
    /\ acc.cpc[c] = "select"
    /\ IF acc.closedSignal
         THEN AccStep([acc EXCEPT !.cpc[c] = "idle", !.returned = TRUE])
         ELSE AccStep([acc EXCEPT !.cpc[c] = "signal"])

\* close(w.closedSignal); closing a closed channel panics
AcceptorCloseSignal(c) ==
    /\ Running
    /\ acc.cpc[c] = "signal"
    /\ IF acc.closedSignal
         THEN AccStep([acc EXCEPT !.panic = TRUE])
         ELSE AccStep([acc EXCEPT !.cpc[c] = "server", !.closedSignal = TRUE,
                                  !.signals = @ + 1])

\* w.httpServer.Close(), and Close returns
AcceptorCloseServer(c) ==
    /\ Running
    /\ acc.cpc[c] = "server"
    /\ AccStep([acc EXCEPT !.cpc[c] = "idle", !.serving = FALSE,
                           !.serverCloses = @ + 1, !.returned = TRUE])

\* the acceptor has handed out no transport yet
InitNoTransport ==
    /\ cfg = CHOOSE c \in WriteConfigs : ~c.compressEnabled /\ ~c.negotiated
    /\ hs = <<>>
    /\ negotiated = Negotiated(hs)
    /\ codecs = newWebsocketTransport(cfg, hs)
    /\ InitIdle

InitAcceptor ==
    /\ InitNoTransport
    /\ \E b \in Backlogs : acc = Listen(b)
    /\ hc = NoHeaderCodec /\ ciph = NoCipher /\ cb = NoCbuf /\ pw = NoDeflater

\* the steps of goroutines that are inside a handler or inside Close
HandlerNext == UpgradeErr \/ UpgradeOk \/ upgradeHTTP
CloserNext ==
    \E c \in Closers :
        \/ AcceptorCloseSelect(c)
        \/ AcceptorCloseSignal(c)
        \/ AcceptorCloseServer(c)

NextAcceptor ==
    \/ ServeHTTP \/ UpgradeErr \/ UpgradeOk \/ upgradeHTTP
    \/ AcceptCall \/ Accept \/ AcceptDrain
    \/ \E c \in Closers :
        \/ AcceptorCloseCall(c)
        \/ AcceptorCloseSelect(c)
        \/ AcceptorCloseSignal(c)
        \/ AcceptorCloseServer(c)

SpecAcceptor == InitAcceptor /\ [][NextAcceptor]_vars

\* every goroutine that has entered a handler, Accept or Close goes on running;
\* whether Accept is called at all is the caller's choice
SpecAcceptorLive ==
    /\ InitAcceptor
    /\ [][NextAcceptor]_vars
    /\ WF_vars(HandlerNext)
    /\ WF_vars(CloserNext)
    /\ WF_vars(Accept)
    /\ WF_vars(AcceptDrain)

\* ---------------------------------------------------------------------------
\* Claims on the acceptor
\* ---------------------------------------------------------------------------

\* C21: an Accept call that begins after a Close call has returned returns an
\* error and never a transport, also while upgraded connections are queued.
AcceptFailsAfterClose ==
    acc.built /\ acc.afterClose /\ acc.apc = "idle" => acc.res # "transport"

\* C22: a handler whose upgrade completed after Close returned never puts its
\* connection on the accept queue, also when the queue has free slots: the
\* step in which it leaves its select does not add to the queue.
LateUpgradeRejected ==
    [][acc.built /\ acc'.late < acc.late => acc'.incoming <= acc.incoming]_vars

\* C23: once a Close call has returned the closed signal is raised, and a
\* Close call that begins afterwards returns at its select: it raises no second
\* signal, does not shut the HTTP server again and does not panic.
AcceptorCloseIdempotent ==
    acc.built =>
        /\ acc.signals <= 1 /\ acc.serverCloses <= 1
        /\ acc.returned => acc.closedSignal /\ acc.signals = 1
        /\ \A c \in Closers : acc.later[c] => acc.cpc[c] \in {"idle", "select"}
        /\ (acc.panic => \E c \in Closers : ~acc.later[c] /\ acc.cpc[c] = "signal")
\* a second Close call has begun after the first returned, and has returned
WitnessC23 ==
    /\ acc.built /\ ~acc.panic
    /\ \E c \in Closers : acc.later[c] /\ acc.cpc[c] = "idle"
    /\ acc.calls = 2 /\ acc.signals = 1 /\ acc.serverCloses = 1 /\ ~acc.serving

\* C24: once the closed signal is raised, the connections that were in the
\* accept queue at that moment eventually leave it, whether or not Accept is
\* called again: unless a handler enqueues after the signal, the queue is
\* eventually empty.
QueueDrainedOnClose ==
    (acc.built /\ acc.closedSignal /\ ~acc.panic)
        ~> (acc.incoming = 0 \/ acc.sentClosed \/ acc.panic)

\* C25: the accept queue never holds more than max(Backlog, 64) connections,
\* and while the closed signal is not raised a handler leaves its select only
\* by enqueuing its connection: with the queue full it stays where it is.
QueueBounded ==
    /\ [](acc.built =>
            acc.incoming <= (IF acc.backlog > MinBacklog THEN acc.backlog ELSE MinBacklog))
    /\ [][acc.built /\ ~acc.closedSignal
            /\ acc'.waiting + acc'.late < acc.waiting + acc.late
          => acc'.incoming = acc.incoming + 1]_vars
    /\ [][acc.built /\ ~acc.closedSignal
            /\ acc.incoming = (IF acc.backlog > MinBacklog THEN acc.backlog ELSE MinBacklog)
          => acc'.waiting + acc'.late >= acc.waiting + acc.late]_vars
\* the queue is full, the acceptor is open and handlers wait at their select
WitnessC25 ==
    /\ acc.built /\ ~acc.closedSignal /\ ~acc.panic
    /\ acc.backlog > MinBacklog /\ acc.incoming = acc.backlog
    /\ acc.waiting = MaxHandlers

\* ---------------------------------------------------------------------------
\* packHeader and ReadHeader over the bytes of a header
\* ---------------------------------------------------------------------------

RECURSIVE BitOr(_, _)
BitOr(a, b) ==
    IF a = 0 THEN b
    ELSE IF b = 0 THEN a
    ELSE (IF (a % 2) + (b % 2) > 0 THEN 1 ELSE 0) + (2 * BitOr(a \div 2, b \div 2))

\* an int64 as its eight bytes, most significant first
Int64(b1, b2, b3, b4, b5, b6, b7, b8) == <<b1, b2, b3, b4, b5, b6, b7, b8>>
Small(n) == Int64(0, 0, 0, 0, 0, 0, n \div 256, n % 256)
Negative(l) == l[1] >= 128
\* length <= len7, length <= len16, length <= len64 of packHeader
LeqLen7(l) == Negative(l) \/ ((\A i \in 1 .. 7 : l[i] = 0) /\ l[8] <= 125)
LeqLen16(l) == Negative(l) \/ (\A i \in 1 .. 6 : l[i] = 0)
LeqLen64(l) == TRUE

\* the length field with the 7-bit bound one too high
LengthFieldWide(l) ==
    CASE (Negative(l) \/ ((\A i \in 1 .. 7 : l[i] = 0) /\ l[8] <= 126)) -> <<l[8]>>
      [] LeqLen16(l) -> <<126, l[7], l[8]>>
      [] OTHER -> <<127>> \o l

\* bts[1] and the extended length packHeader writes
LengthField(l) ==
    CASE LeqLen7(l) -> <<l[8]>>
      [] LeqLen16(l) -> <<126, l[7], l[8]>>
      [] LeqLen64(l) -> <<127>> \o l

\* the n bytes packHeader puts into bts
packHeaderBytes(opCode, side, fin, mask, length, compressed) ==
    LET b0 == BitOr(BitOr(opCode, IF fin THEN 128 ELSE 0),
                    IF compressed THEN 64 ELSE 0)
        lf == LengthField(length)
    IN  IF side = "client"
          THEN <<b0, BitOr(lf[1], 128)>> \o SubSeq(lf, 2, Len(lf)) \o mask
          ELSE <<b0>> \o lf

ZeroHeader ==
    [Fin |-> FALSE, Rsv |-> 0, OpCode |-> 0, Masked |-> FALSE,
     Mask |-> <<0, 0, 0, 0>>, Length |-> Small(0)]

\* ReadHeader over the bytes r: the header, the bytes consumed, the error
ReadHeader(r) ==
    IF Len(r) < 2
      THEN [h |-> ZeroHeader, used |-> Len(r),
            err |-> IF Len(r) = 0 THEN "EOF" ELSE "ErrUnexpectedEOF"]
    ELSE
    LET masked == BitAnd(r[2], 128) # 0
        length == BitAnd(r[2], 127)
        h1 == [ZeroHeader EXCEPT !.Fin = BitAnd(r[1], 128) # 0,
                                 !.Rsv = BitAnd(r[1], 112) \div 16,
                                 !.OpCode = BitAnd(r[1], 15),
                                 !.Masked = masked,
                                 !.Length = IF length < 126 THEN Small(length)
                                            ELSE Small(0)]
        extra == (IF masked THEN 4 ELSE 0)
                 + (IF length = 126 THEN 2 ELSE IF length = 127 THEN 8 ELSE 0)
        bts == SubSeq(r, 3, 2 + extra)
    IN  IF extra = 0 THEN [h |-> h1, used |-> 2, err |-> "nil"]
        ELSE IF Len(r) < 2 + extra
          THEN [h |-> h1, used |-> Len(r),
                err |-> IF Len(r) = 2 THEN "EOF" ELSE "ErrUnexpectedEOF"]
        ELSE IF length = 127 /\ BitAnd(bts[1], 128) # 0
          THEN [h |-> h1, used |-> 2 + extra, err |-> "ErrHeaderLengthMSB"]
        ELSE
          LET h2 == [h1 EXCEPT !.Length =
                        CASE length = 126 -> Int64(0, 0, 0, 0, 0, 0, bts[1], bts[2])
                          [] length = 127 -> SubSeq(bts, 1, 8)
                          [] OTHER -> @]
              rest == CASE length = 126 -> SubSeq(bts, 3, Len(bts))
                        [] length = 127 -> SubSeq(bts, 9, Len(bts))
                        [] OTHER -> bts
          IN  [h |-> IF masked THEN [h2 EXCEPT !.Mask = rest] ELSE h2,
               used |-> 2 + extra, err |-> "nil"]

\* the lengths, masks and payload bytes the headers are packed with
HeaderLengths ==
    {Small(0), Small(1), Small(125), Small(126), Small(127), Small(255),
     Small(256), Small(65535),
     Int64(0, 0, 0, 0, 0, 1, 0, 0), Int64(0, 0, 0, 0, 0, 1, 0, 1),
     Int64(0, 0, 0, 0, 128, 0, 0, 0), Int64(1, 2, 3, 4, 5, 6, 7, 8),
     Int64(127, 255, 255, 255, 255, 255, 255, 255)}
HeaderMasks == {<<0, 0, 0, 0>>, <<18, 52, 128, 255>>}
HeaderTails == {<<>>, <<255>>, <<129, 254, 7>>}
HeaderOpCodes == {OpContinuation, OpText, OpBinary, OpClose, OpPing, OpPong}

HeaderInputs ==
    {x \in [opCode : HeaderOpCodes, side : Sides, fin : BOOLEAN,
            compressed : BOOLEAN, mask : HeaderMasks, length : HeaderLengths,
            tail : HeaderTails] :
        x.side = "server" => x.mask = <<0, 0, 0, 0>>}

HcStep(x) == hc' = x /\ UNCHANGED transportVars /\ UNCHANGED <<acc, ciph, cb, pw>>

\* packHeader is called and the frame's first payload bytes follow the header
PackHeader ==
    /\ hc.built /\ hc.pc = "new"
    /\ LET b == packHeaderBytes(hc.in.opCode, hc.in.side, hc.in.fin, hc.in.mask,
                                hc.in.length, hc.in.compressed)
       IN  HcStep([hc EXCEPT !.pc = "packed", !.n = Len(b), !.bts = b,
                             !.stream = b \o hc.in.tail])

\* the receiver calls ReadHeader on the stream
ReadHeaderCall ==
    /\ hc.built /\ hc.pc = "packed"
    /\ HcStep([hc EXCEPT !.pc = "read", !.out = ReadHeader(hc.stream)])

InitHeader ==
    /\ InitNoTransport
    /\ acc = NoAcceptor /\ ciph = NoCipher /\ cb = NoCbuf /\ pw = NoDeflater
    /\ \E x \in HeaderInputs :
          hc = [built |-> TRUE, pc |-> "new", in |-> x, n |-> 0, bts |-> <<>>,
                stream |-> <<>>,
                out |-> [h |-> ZeroHeader, used |-> 0, err |-> "nil"]]
NextHeader == PackHeader \/ ReadHeaderCall
SpecHeader == InitHeader /\ [][NextHeader]_vars

\* C26: ReadHeader over the bytes packHeader wrote returns fin, rsv1, the op
\* code, the masked flag, the mask and the length that were packed, without
\* error, and consumes exactly the n bytes written: 2 for a length up to 125,
\* 4 up to 65535, 10 above, and 4 more on a client.
HeaderRoundTrip ==
    hc.built /\ hc.pc = "read" =>
        LET l == hc.in.length
            short == (\A i \in 1 .. 7 : l[i] = 0) /\ l[8] <= 125
            mid == ~short /\ (\A i \in 1 .. 6 : l[i] = 0)
            client == hc.in.side = "client"
        IN  /\ hc.out.err = "nil"
            /\ hc.out.h.Fin = hc.in.fin
            /\ (hc.out.h.Rsv = 4) = hc.in.compressed
            /\ hc.out.h.Rsv \in {0, 4}
            /\ hc.out.h.OpCode = hc.in.opCode
            /\ hc.out.h.Masked = client
            /\ hc.out.h.Mask = (IF client THEN hc.in.mask ELSE <<0, 0, 0, 0>>)
            /\ hc.out.h.Length = l
            /\ hc.out.used = hc.n
            /\ hc.n = Len(hc.bts)
            /\ hc.n = (IF short THEN 2 ELSE IF mid THEN 4 ELSE 10)
                      + (IF client THEN 4 ELSE 0)
\* a client's header with a 64-bit length has been read back, payload following
WitnessC26 ==
    /\ hc.built /\ hc.pc = "read"
    /\ hc.in.side = "client" /\ hc.in.compressed /\ hc.in.mask # <<0, 0, 0, 0>>
    /\ hc.in.length = Int64(0, 0, 0, 0, 0, 1, 0, 0)
    /\ hc.in.tail # <<>> /\ hc.n = 14

\* ---------------------------------------------------------------------------
\* The mask codec on its own: both FastCipher implementations, CipherReader
\* ---------------------------------------------------------------------------

\* unsafe.Sizeof(uintptr(0)) of the builds
WordSizes == {4, 8}
CipherMasks == {<<1, 2, 3, 0>>, <<3, 0, 2, 1>>}
\* buffer contents: n bytes that differ from block to block
Pattern(n, a) == [i \in 1 .. n |-> ((a * i) + (i \div 4)) % 4]

\* xwsutil.FastCipher on a buffer whose first byte lies at address addr:
\* byte by byte below two words; else byte by byte to the word boundary, word
\* by word with the key rotated to pos, byte by byte for the rest
WordCipher(b, key, pos, addr, wordSize) ==
    LET n == Len(b)
        a == addr % wordSize
        h == IF a # 0 THEN wordSize - a ELSE 0
        pos1 == pos + h
        k == [j \in 0 .. wordSize - 1 |-> key[((pos1 + j) % 4) + 1]]
        nw == ((n - h) \div wordSize) * wordSize
    IN  IF n < 2 * wordSize
          THEN [i \in 1 .. n |-> Xor(b[i], key[((pos + i - 1) % 4) + 1])]
          ELSE [i \in 1 .. n |->
                  IF i <= h THEN Xor(b[i], key[((pos + i - 1) % 4) + 1])
                  ELSE IF i <= h + nw THEN Xor(b[i], k[(i - 1 - h) % wordSize])
                  ELSE Xor(b[i], key[((pos1 + (i - 1 - h - nw)) % 4) + 1])]

CipherInputs ==
    {x \in [p : {Pattern(n, a) : n \in 0 .. MaxCipherLen, a \in {1, 3}},
            mask : CipherMasks, off : 0 .. MaxOff,
            wordSize : WordSizes, addr : 0 .. 7] : x.addr < x.wordSize}

CiphStep(x) == ciph' = x /\ UNCHANGED transportVars /\ UNCHANGED <<acc, hc, cb, pw>>

\* both implementations are applied to their buffer, in place
ApplyCipher ==
    /\ ciph.built /\ ciph.kind = "buffer"
    /\ ciph.n < 2
    /\ CiphStep([ciph EXCEPT
          !.n = @ + 1,
          !.fast = FastCipher(@, ciph.in.mask, ciph.in.off),
          !.word = WordCipher(@, ciph.in.mask, ciph.in.off, ciph.in.addr,
                              ciph.in.wordSize)])

InitCipher ==
    /\ InitNoTransport
    /\ acc = NoAcceptor /\ hc = NoHeaderCodec /\ cb = NoCbuf /\ pw = NoDeflater
    /\ \E x \in CipherInputs :
          ciph = [built |-> TRUE, kind |-> "buffer", in |-> x, n |-> 0,
                  fast |-> x.p, word |-> x.p]
NextCipher == ApplyCipher
SpecCipher == InitCipher /\ [][NextCipher]_vars

\* the byte-by-byte loop: buf[i] xor mask[(offset + i) mod 4]
cipherNaive(p, m, pos) == [i \in 1 .. Len(p) |-> Xor(p[i], m[((pos + i - 1) % 4) + 1])]

\* C27: after one call of FastCipher every byte is the old byte xor
\* mask[(offset + i) mod 4], as the byte-by-byte loop leaves it, for every
\* length, offset and alignment, in either implementation.
FastCipherIsNaive ==
    ciph.built /\ ciph.kind = "buffer" /\ ciph.n = 1 =>
        /\ ciph.fast = cipherNaive(ciph.in.p, ciph.in.mask, ciph.in.off)
        /\ ciph.word = cipherNaive(ciph.in.p, ciph.in.mask, ciph.in.off)
\* a buffer of head, blocks and tail went through the ciphers at an offset and
\* an address that are not aligned
WitnessC27 ==
    /\ ciph.built /\ ciph.kind = "buffer" /\ ciph.n = 1
    /\ Len(ciph.in.p) = MaxCipherLen /\ ciph.in.off = 3
    /\ ciph.in.wordSize = 8 /\ ciph.in.addr = 1
    /\ ciph.fast # ciph.in.p

\* C28: applying the cipher twice with the same mask and the same offset
\* leaves the buffer as it was.
CipherInvolution ==
    ciph.built /\ ciph.kind = "buffer" /\ ciph.n = 2 =>
        ciph.fast = ciph.in.p /\ ciph.word = ciph.in.p
\* the cipher went twice over a buffer it had changed the first time
WitnessC28 ==
    /\ ciph.built /\ ciph.kind = "buffer" /\ ciph.n = 2
    /\ Len(ciph.in.p) = MaxCipherLen - 1 /\ ciph.in.off = 2
    /\ ciph.in.wordSize = 4 /\ ciph.in.addr = 3
    /\ cipherNaive(ciph.in.p, ciph.in.mask, ciph.in.off) # ciph.in.p

\* c.pos after a Read of n bytes that leaves the position where it was
ReaderPosStuck(pos, n) == pos
\* c.pos after a Read of n bytes: wsutils.CipherReader
ReaderPos(pos, n) == (pos + n) % 4
\* c.pos after a Read of n bytes: xwsutil.CipherReader
WordReaderPos(pos, n) == pos + n

\* a buffer ciphered chunk by chunk, and two CipherReaders over the masked
\* bytes; data[1 .. i] is done
Chunked(data, mask, wordSize, base, resets) ==
    [built |-> TRUE, kind |-> "chunks", data |-> data, mask |-> mask,
     wordSize |-> wordSize, base |-> base, i |-> 0,
     fast |-> data, word |-> data,
     pos |-> 0, out |-> <<>>, wpos |-> 0, wout |-> <<>>, resets |-> resets]

Splice(b, from, chunk) ==
    [j \in 1 .. Len(b) |->
        IF from < j /\ j <= from + Len(chunk) THEN chunk[j - from] ELSE b[j]]

\* FastCipher(b[l:r], m, l) for the next k bytes, and a Read that returns the
\* next k bytes of the masked source
CipherChunk ==
    /\ ciph.built /\ ciph.kind = "chunks"
    /\ \E k \in 1 .. (Len(ciph.data) - ciph.i) :
        LET l == ciph.i
            addr == (ciph.base + l) % ciph.wordSize
            src == SubSeq(cipherNaive(ciph.data, ciph.mask, 0), l + 1, l + k)
        IN  CiphStep([ciph EXCEPT
              !.i = l + k,
              !.fast = Splice(@, l, FastCipher(SubSeq(@, l + 1, l + k), ciph.mask, l)),
              !.word = Splice(@, l, WordCipher(SubSeq(@, l + 1, l + k), ciph.mask, l,
                                               addr, ciph.wordSize)),
              !.out = @ \o FastCipher(src, ciph.mask, ciph.pos),
              !.pos = ReaderPos(@, k),
              !.wout = @ \o WordCipher(src, ciph.mask, ciph.wpos, addr, ciph.wordSize),
              !.wpos = WordReaderPos(@, k)])

\* Reset(r, mask): a new source from its first byte, a new mask, position 0
CipherReset ==
    /\ ciph.built /\ ciph.kind = "chunks"
    /\ ciph.resets < MaxResets
    /\ \E m \in CipherMasks :
          CiphStep(Chunked(ciph.data, m, ciph.wordSize, ciph.base, ciph.resets + 1))

InitChunks ==
    /\ InitNoTransport
    /\ acc = NoAcceptor /\ hc = NoHeaderCodec /\ cb = NoCbuf /\ pw = NoDeflater
    /\ \E n \in 0 .. MaxCipherLen, m \in CipherMasks, w \in WordSizes, b \in 0 .. 7 :
          /\ b < w
          /\ ciph = Chunked(Pattern(n, 3), m, w, b, 0)
NextChunks == CipherChunk \/ CipherReset
SpecChunks == InitChunks /\ [][NextChunks]_vars

\* C29: after any sequence of consecutive chunks, each ciphered at the offset
\* of its first byte, the bytes done are those of ciphering the whole buffer at
\* offset 0 and the others are untouched; a CipherReader over the masked bytes
\* has returned the original bytes whatever the sizes of the Reads were, and
\* after Reset it does so again from position 0.
ChunkingIndependent ==
    ciph.built /\ ciph.kind = "chunks" =>
        LET whole == cipherNaive(ciph.data, ciph.mask, 0)
            n == Len(ciph.data)
            done == SubSeq(whole, 1, ciph.i) \o SubSeq(ciph.data, ciph.i + 1, n)
        IN  /\ ciph.fast = done
            /\ ciph.word = done
            /\ ciph.out = SubSeq(ciph.data, 1, ciph.i)
            /\ ciph.wout = SubSeq(ciph.data, 1, ciph.i)
            /\ ciph.pos = ciph.i % 4
            /\ ciph.wpos = ciph.i
\* after a Reset, chunks and Reads have reached the end of the longest buffer,
\* whose masked bytes differ from the original ones
WitnessC29 ==
    /\ ciph.built /\ ciph.kind = "chunks"
    /\ ciph.resets = 1 /\ Len(ciph.data) = MaxCipherLen /\ ciph.i = MaxCipherLen
    /\ ciph.wordSize = 8 /\ ciph.base = 2
    /\ ciph.out # cipherNaive(ciph.data, ciph.mask, 0)

\* the header of frame id on the wire w
WireHeader(w, id) ==
    LET i == CHOOSE j \in 1 .. Len(w) : w[j].k = "h" /\ w[j].id = id IN w[i].hdr
\* what writer w is sending before the mask: the close body, the buffer, or
\* the deflated buffer when the frame is marked compressed
PlainPayload(w, rsv1) ==
    IF wr[w].fn = "WriteClose" THEN NewCloseFrameBody(StatusProtocolError, ReasonText)
    ELSE LET p == wr[w].src[Len(wr[w].src) - Len(wr[w].q) + 1]
         IN IF rsv1 THEN FlateWriterOutput(p).out ELSE p

FragmentMachine ==
    [][(/\ rc.pc = "next" /\ inq # <<>> /\ Head(inq).t = "h"
        /\ rc'.pc \notin {"idle", "panic"})
       => LET h == Head(inq).hdr
              control == h.op \in {OpClose, OpPing, OpPong}
          IN  /\ control /\ rd.frag => rd'.frag /\ rd'.opCode = rd.opCode
              /\ ~control => rd'.frag = ~h.fin
              /\ h.op = OpContinuation => rd.frag /\ rd'.opCode = rd.opCode
              /\ h.op \in {OpText, OpBinary} => ~rd.frag /\ rd'.opCode = h.op
              /\ control /\ ~rd.frag => ~rd'.frag
      ]_vars
\* a message is still in progress after a ping was taken inside it and a
\* continuation frame without fin followed
WitnessC31 ==
    /\ rd.frag /\ rd.opCode = OpText
    /\ rc.hdr.op = OpContinuation /\ ~rc.hdr.fin /\ rc.pc = "mread"
    /\ \E i \in 1 .. Len(pings) : pings[i].frag

\* C32: once Read has returned an unexpected end of stream, a frame that is
\* too large or a protocol error, the frame reader holds no current frame, is
\* not marked fragmented, and the transport has no message reader.
ResetOnError ==
    (/\ rc.pc = "idle"
     /\ rres.err \in {"ErrUnexpectedEOF", "ErrFrameTooLarge"} \cup ProtocolErrors)
    => rd.frame = "nil" /\ ~rd.frag /\ ~msgReader

\* C33: the control handler does not hold the write lock while it reads the
\* payload of the control frame from the inbound stream.
HandlerReadsUnlocked == rc.pc = "ctlread" => lock # "reader"

\* ---------------------------------------------------------------------------
\* FlateWriter's cbuf: the four trailing bytes of the compressor's output are
\* held back from the sink
\* ---------------------------------------------------------------------------

MaxChunk == 5
MaxEmit == 7

\* bytes the compressor may emit: 3 stands for 0xff as in compressionTail
CbufBytes == {0, 3}
RECURSIVE ChunksOf(_)
ChunksOf(n) ==
    IF n = 0 THEN {<<>>}
    ELSE {<<>>} \cup {<<b>> \o c : b \in CbufBytes, c \in ChunksOf(n - 1)}
Chunks == ChunksOf(MaxChunk)

\* cbuf.reset: an empty buffer of four zero bytes in front of a new sink
cbufReset ==
    [built |-> TRUE, n |-> 0, err |-> "nil", buf |-> <<0, 0, 0, 0>>,
     dst |-> <<>>, emitted |-> <<>>, flushed |-> FALSE]

\* cbuf.split: all of p but its last four bytes, and its last four bytes
cbufSplit(p) ==
    IF Len(p) > 4
        THEN [head |-> SubSeq(p, 1, Len(p) - 4), tail |-> SubSeq(p, Len(p) - 3, Len(p))]
        ELSE [head |-> <<>>, tail |-> p]

\* copy(dst[at:], src) on the four byte buffer
cbufCopy(buf, at, src) ==
    [i \in 1 .. 4 |->
        IF i > at /\ i - at <= Len(src) THEN src[i - at] ELSE buf[i]]

\* a cbuf.Write that hands the head of p to the sink before the bytes it holds
cbufWriteHeadFirst(c, p) ==
    LET s == cbufSplit(p)
        n == c.n + Len(s.tail)
        x == IF n > 4 THEN n - 4 ELSE 0
        d1 == c.dst \o s.head
        d2 == d1 \o SubSeq(c.buf, 1, x)
        b1 == IF x > 0 THEN cbufCopy(c.buf, 0, SubSeq(c.buf, x + 1, 4)) ELSE c.buf
        n1 == c.n - x
    IN  [c EXCEPT !.dst = d2,
                  !.buf = cbufCopy(b1, n1, s.tail),
                  !.n = Min(n1 + Len(s.tail), 4),
                  !.emitted = @ \o p]

\* cbuf.Write: the bytes that no longer fit are flushed and the rest shifted
\* down, then the head is flushed, then the tail is stored
cbufWrite(c, p) ==
    LET s == cbufSplit(p)
        n == c.n + Len(s.tail)
        x == IF n > 4 THEN n - 4 ELSE 0
        d1 == c.dst \o SubSeq(c.buf, 1, x)
        b1 == IF x > 0 THEN cbufCopy(c.buf, 0, SubSeq(c.buf, x + 1, 4)) ELSE c.buf
        n1 == c.n - x
        d2 == d1 \o s.head
    IN  [c EXCEPT !.dst = d2,
                  !.buf = cbufCopy(b1, n1, s.tail),
                  !.n = Min(n1 + Len(s.tail), 4),
                  !.emitted = @ \o p]

\* FlateWriter.checkTail: the whole buffer is compared with the tail
checkTail(c) ==
    IF c.err = "nil" /\ c.buf # compressionTail THEN "errUnexpectedTail" ELSE c.err

CbStep(x) == cb' = x /\ UNCHANGED transportVars /\ UNCHANGED <<acc, hc, ciph, pw>>

\* the compressor writes a chunk of its output
CbufWrite ==
    /\ cb.built /\ ~cb.flushed
    /\ \E p \in Chunks :
          /\ Len(cb.emitted) + Len(p) <= MaxEmit
          /\ CbStep(cbufWrite(cb, p))

\* FlateWriter.Flush once the compressor has written what it had
CbufFlush ==
    /\ cb.built /\ ~cb.flushed
    /\ CbStep([cb EXCEPT !.err = checkTail(cb), !.flushed = TRUE])

\* FlateWriter.Reset
CbufReset ==
    /\ cb.built /\ cb.flushed
    /\ CbStep(cbufReset)

InitCbuf ==
    /\ InitNoTransport
    /\ acc = NoAcceptor /\ hc = NoHeaderCodec /\ ciph = NoCipher /\ pw = NoDeflater
    /\ cb = cbufReset

NextCbuf == CbufWrite \/ CbufFlush \/ CbufReset

SpecCbuf == InitCbuf /\ [][NextCbuf]_vars

\* C34: the sink has received, in order, every byte the compressor emitted
\* since the last reset but the last min(4, total); the buffer holds those
\* trailing bytes; and a Flush succeeds exactly when the last four emitted
\* bytes are the tail 00 00 ff ff
CbufHoldsTail ==
    cb.built =>
        LET t == Len(cb.emitted)
            k == Min(4, t)
        IN  /\ cb.dst = SubSeq(cb.emitted, 1, t - k)
            /\ cb.n = k
            /\ SubSeq(cb.buf, 1, cb.n) = SubSeq(cb.emitted, t - k + 1, t)
            /\ cb.flushed =>
                  ((cb.err = "nil") <=>
                      (t >= 4 /\ SubSeq(cb.emitted, t - 3, t) = compressionTail))

\* the compressor emitted MaxEmit bytes, which takes more than one Write, the
\* sink received all but the last four of them, a 0xff among them, and the
\* Flush succeeded
WitnessC34 ==
    /\ cb.built /\ cb.flushed /\ cb.err = "nil"
    /\ Len(cb.emitted) = MaxEmit
    /\ Len(cb.dst) = MaxEmit - 4
    /\ 3 \in {cb.dst[i] : i \in 1 .. Len(cb.dst)}

\* ---------------------------------------------------------------------------
\* a compressed message that arrives in two fragments
\* ---------------------------------------------------------------------------

\* The peer deflates the message p once, cuts the deflated bytes after the
\* first j (at least one) and sends them as a text or binary frame with RSV1 set and fin
\* clear, followed by a final continuation frame with RSV1 clear.
PeerWriteFragments ==
    /\ PeerTurn
    /\ sent < MaxWrites
    /\ \E p \in DataPayloads \ {<<>>}, op \in {OpText, OpBinary}, j \in 1 .. MaxLen + 1 :
         LET s == FlateWriterOutput(p).out
             masked == Other(cfg.side) = "client"
             mask == IF masked THEN PeerMask ELSE NoMask
             s1 == SubSeq(s, 1, j)
             s2 == SubSeq(s, j + 1, Len(s))
             b1 == IF masked THEN FastCipher(s1, mask, 0) ELSE s1
             b2 == IF masked THEN FastCipher(s2, mask, 0) ELSE s2
         IN /\ j <= Len(s)
            /\ inq' = <<HdrTok(Header(FALSE, TRUE, op, masked, mask, Len(s1)), p)>>
                      \o Toks(b1)
                      \o <<HdrTok(Header(TRUE, FALSE, OpContinuation, masked, mask, Len(s2)), p)>>
                      \o Toks(b2)
            /\ pm' = [pm EXCEPT !.data = p, !.open = FALSE]
    /\ sent' = sent + 1
    /\ UNCHANGED ctorVars /\ UNCHANGED auxVars /\ UNCHANGED <<cfg, inEof, wire, lock, nextId>>
    /\ UNCHANGED readerVars /\ UNCHANGED writerVars

\* T, with permessage-deflate negotiated, reads fragmented compressed messages.
FragmentConfigs ==
    {c \in Configs : /\ c.compressEnabled /\ c.negotiated /\ c.threshold = 1
                     /\ c.acceptMask = 3 /\ c.maxFrameSize = 0}
InitFragments == cfg \in FragmentConfigs /\ InitCommon
NextFragments ==
    \/ ReadCall
    \/ RNextFrame
    \/ RMsgRead
    \/ PeerWriteFragments
SpecFragments == InitFragments /\ [][NextFragments]_vars

\* C35: every Read of a compressed message that came in fragments returns
\* without an error, what it has delivered so far is a prefix of the inflation
\* of the fragments' concatenated payloads, and at the end of the message it
\* has delivered all of it
FragmentsInflated ==
    (rc.pc = "idle" /\ rres.err # "none") =>
        /\ rres.err \in {"nil", "EOF"}
        /\ IsPrefix(rres.msg, rres.expd)
        /\ rres.err = "EOF" => rres.msg = rres.expd

\* ---------------------------------------------------------------------------
\* the persistent flate instances under concurrent Write, Read and Close
\* ---------------------------------------------------------------------------

\* no call, and no payload buffer as a sink
NoCall == 0
IdleCompress == [pc |-> "idle", id |-> NoCall, persistent |-> FALSE, p |-> <<>>]

\* A transport built with context takeover in both directions: it holds a
\* persistent writer and a persistent reader.  dst is the payload buffer (named
\* by its call) the persistent writer was last Reset onto, buffers the payload
\* buffers of the calls, order the calls in the order their messages went
\* through a compressor, frames the calls in the order their frames reached
\* the stream.
NewDeflaters ==
    [built |-> TRUE,
     persistentFlateWriter |-> TRUE,   \* t.persistentFlateWriter is not nil
     persistentFlateReader |-> TRUE,   \* t.persistentFlateReader is not nil
     dst |-> NoCall,
     src |-> FALSE,                    \* the persistent reader has a source
     writerPuts |-> 0,                 \* flateWriterPool.Put of the persistent writer
     readerPuts |-> 0,                 \* flateReaderPool.Put of the persistent reader
     usedPooled |-> FALSE,             \* an instance was used after its Put
     nilReader |-> FALSE,              \* Read called Reset on a nil reader
     buffers |-> [i \in 1 .. MaxWrites |-> <<>>],
     g |-> [w \in Writers |-> IdleCompress],
     writeLocker |-> "none",
     order |-> <<>>,
     frames |-> <<>>,
     calls |-> 0,
     reads |-> 0,
     rpc |-> "idle",
     closer |-> "idle",                \* where the Close call is
     closed |-> FALSE]

PwStep(x) == pw' = x /\ UNCHANGED transportVars /\ UNCHANGED <<acc, hc, ciph, cb>>

\* writeCompress begins: the payload buffer is taken and the persistent writer,
\* if the transport has one, becomes the call's writer
WcCall(w) ==
    /\ pw.built /\ pw.g[w].pc = "idle" /\ pw.calls < MaxWrites
    /\ PwStep([pw EXCEPT !.calls = @ + 1,
                         !.g[w] = [pc |-> IF pw.persistentFlateWriter THEN "reset" ELSE "pool",
                                   id |-> pw.calls + 1,
                                   persistent |-> pw.persistentFlateWriter,
                                   p |-> <<>>]])

\* flateWriter.Reset(payloadBuffer) on the persistent writer
WcReset(w) ==
    /\ pw.built /\ pw.g[w].pc = "reset"
    /\ PwStep([pw EXCEPT !.dst = pw.g[w].id,
                         !.usedPooled = @ \/ pw.writerPuts > 0,
                         !.g[w].pc = "compress"])

\* flateWriter.Write(p) and Flush(): the compressed bytes of the call's message
\* go to the buffer the writer was last Reset onto
WcCompress(w) ==
    /\ pw.built /\ pw.g[w].pc = "compress"
    /\ PwStep([pw EXCEPT !.buffers = IF pw.dst = NoCall THEN @
                                     ELSE [@ EXCEPT ![pw.dst] = Append(@, pw.g[w].id)],
                         !.order = Append(@, pw.g[w].id),
                         !.usedPooled = @ \/ pw.writerPuts > 0,
                         !.g[w].pc = "take"])

\* the call has no persistent writer: a writer from the pool compresses the
\* message into the call's buffer
WcPooled(w) ==
    /\ pw.built /\ pw.g[w].pc = "pool"
    /\ PwStep([pw EXCEPT !.buffers[pw.g[w].id] = <<pw.g[w].id>>,
                         !.order = Append(@, pw.g[w].id),
                         !.g[w].pc = "take"])

\* p = payloadBuffer.Bytes(): the call takes the output, masks it and packs
\* the frame
WcTake(w) ==
    /\ pw.built /\ pw.g[w].pc = "take"
    /\ PwStep([pw EXCEPT !.g[w].p = pw.buffers[pw.g[w].id],
                         !.g[w].pc = "lock"])

\* t.writeLocker.Lock()
WcLock(w) ==
    /\ pw.built /\ pw.g[w].pc = "lock" /\ pw.writeLocker = "none"
    /\ PwStep([pw EXCEPT !.writeLocker = w, !.g[w].pc = "send"])

\* t.Transport.Write of the frame, the deferred Unlock and the return
WcSend(w) ==
    /\ pw.built /\ pw.g[w].pc = "send"
    /\ PwStep([pw EXCEPT !.frames = IF pw.closed THEN @
                                    ELSE Append(@, [id |-> pw.g[w].id, p |-> pw.g[w].p]),
                         !.writeLocker = "none",
                         !.g[w].pc = "defer"])

\* the deferred function of writeCompress: a writer that is not (or no longer)
\* t.persistentFlateWriter is Reset(nil) and put into the pool
WcDefer(w) ==
    /\ pw.built /\ pw.g[w].pc = "defer"
    /\ PwStep(IF pw.g[w].persistent /\ ~pw.persistentFlateWriter
              THEN [pw EXCEPT !.dst = NoCall, !.writerPuts = @ + 1, !.g[w] = IdleCompress]
              ELSE [pw EXCEPT !.g[w] = IdleCompress])

\* Read meets a compressed frame: the overriding GetFlateReader calls
\* t.persistentFlateReader.Reset(frame)
PwGetFlateReader ==
    /\ pw.built /\ pw.rpc = "idle" /\ pw.reads < MaxProbes
    /\ PwStep(IF pw.persistentFlateReader
              THEN [pw EXCEPT !.src = TRUE,
                              !.usedPooled = @ \/ pw.readerPuts > 0,
                              !.reads = @ + 1,
                              !.rpc = "inflate"]
              ELSE [pw EXCEPT !.nilReader = TRUE, !.reads = @ + 1, !.rpc = "panic"])

\* FrameReader.Read inflates the frame through the reader it was given
PwInflate ==
    /\ pw.built /\ pw.rpc = "inflate"
    /\ PwStep([pw EXCEPT !.usedPooled = @ \/ pw.readerPuts > 0,
                         !.rpc = "idle"])

\* Close is called
PwCloseCall ==
    /\ pw.built /\ pw.closer = "idle"
    /\ PwStep([pw EXCEPT !.closer = "rcheck"])

\* the next statement of Close: for each persistent instance the test for
\* nil, Reset(nil), the pool's Put and the assignment of nil, then
\* t.Transport.Close()
PwClose ==
    /\ pw.built /\ pw.closer \notin {"idle", "done"}
    /\ LET pc == pw.closer
       IN PwStep(
            IF pc = "rcheck"
            THEN [pw EXCEPT !.closer = IF pw.persistentFlateReader THEN "rreset" ELSE "wcheck"]
            ELSE IF pc = "rreset"
            THEN [pw EXCEPT !.src = FALSE, !.closer = "rput"]
            ELSE IF pc = "rput"
            THEN [pw EXCEPT !.readerPuts = @ + 1, !.closer = "rclear"]
            ELSE IF pc = "rclear"
            THEN [pw EXCEPT !.persistentFlateReader = FALSE, !.closer = "wcheck"]
            ELSE IF pc = "wcheck"
            THEN [pw EXCEPT !.closer = IF pw.persistentFlateWriter THEN "wreset" ELSE "close"]
            ELSE IF pc = "wreset"
            THEN [pw EXCEPT !.dst = NoCall, !.closer = "wput"]
            ELSE IF pc = "wput"
            THEN [pw EXCEPT !.writerPuts = @ + 1, !.closer = "wclear"]
            ELSE IF pc = "wclear"
            THEN [pw EXCEPT !.persistentFlateWriter = FALSE, !.closer = "close"]
            ELSE [pw EXCEPT !.closed = TRUE, !.closer = "done"])

InitDeflater ==
    /\ InitNoTransport
    /\ acc = NoAcceptor /\ hc = NoHeaderCodec /\ ciph = NoCipher /\ cb = NoCbuf
    /\ pw = NewDeflaters

NextDeflater ==
    \/ \E w \in Writers :
          \/ WcCall(w)
          \/ WcReset(w)
          \/ WcCompress(w)
          \/ WcPooled(w)
          \/ WcTake(w)
          \/ WcLock(w)
          \/ WcSend(w)
          \/ WcDefer(w)
    \/ PwGetFlateReader
    \/ PwInflate
    \/ PwCloseCall
    \/ PwClose

SpecDeflater == InitDeflater /\ [][NextDeflater]_vars

\* C36: at most one Write at a time is between its Reset of the persistent
\* writer and the moment it has taken the output from its payload buffer
DeflaterExclusive ==
    pw.built =>
        Cardinality({w \in Writers : /\ pw.g[w].persistent
                                     /\ pw.g[w].pc \in {"compress", "take"}}) <= 1

\* the place of the call id in the sequence s, 0 if it is not there
PlaceOf(s, id) ==
    IF \E i \in 1 .. Len(s) : s[i] = id
    THEN CHOOSE i \in 1 .. Len(s) : s[i] = id
    ELSE 0

\* C37: the frames of the compressed messages are on the stream in the order
\* in which the messages went through the persistent writer
WireInCompressionOrder ==
    pw.built =>
        \A i, j \in 1 .. Len(pw.frames) :
            i < j => PlaceOf(pw.order, pw.frames[i].id) < PlaceOf(pw.order, pw.frames[j].id)

\* C38: no persistent instance is used after Close has reset it and put it
\* into its pool, none is put twice, and Read never calls the persistent
\* reader through a nil pointer
ReleasedOnce ==
    pw.built =>
        /\ ~pw.usedPooled
        /\ pw.writerPuts <= 1 /\ pw.readerPuts <= 1
        /\ ~pw.nilReader

\* C39: after Write and Writev the buffers the caller passed hold the bytes
\* they held before the call
BuffersUnchanged ==
    \A w \in Writers : wr[w].fn \in {"Write", "Writev"} => wr[w].bufs = wr[w].src

\* C40: however many Close calls run at once, none of them closes the closed
\* signal a second time (a panic), and once every call has returned the signal
\* has been closed once and the HTTP server shut by one caller
AcceptorClosedOnce ==
    acc.built =>
        /\ ~acc.panic
        /\ ((acc.calls > 0 /\ \A c \in Closers : acc.cpc[c] = "idle") =>
                (acc.signals = 1 /\ acc.serverCloses = 1))
===============================================================================
